---------------------------- MODULE Spec2Model ----------------------------
(***************************************************************************)
(* Verification model of the rag-suite services.                           *)
(*                                                                         *)
(* Part I   text helpers of the RAG orchestrator (citation-tag stripping)  *)
(* Part II  RAG chat requests: SSE streams, batch calls, the checkpoint    *)
(*          store and the session store                                    *)
(* Part III the operation manager and the cancel-aware chat client         *)
(* Part IV  properties of the SSE streams                                  *)
(* Part V   properties of the checkpoint threads                           *)
(* Part VI  properties of the operation manager                            *)
(* Part VII the ingestion pipeline: chunking, ingest of a document         *)
(* Part VIII properties of the ingestion pipeline                          *)
(* Part IX  retrieval: hybrid ranker, reranker backend, reranked retrieval *)
(* Part X   properties of retrieval                                        *)
(* Part XI  chat responses, the session store, prompts, text normalizing   *)
(* Part XII properties of Part XI and of the earlier parts                 *)
(*                                                                         *)
(* A text is a sequence of characters.  The characters are one word        *)
(* character, the blank, the newline, and one token that stands for a      *)
(* whole inline citation marker such as "[S1]".                            *)
(***************************************************************************)
EXTENDS Integers, Sequences, FiniteSets, TLC

\* ---------------------------------------------------------------- bounds
MaxDeltas == 3        \* upstream pieces of one stream, one request at a time
MaxStreamCalls == 1   \* chat calls of one behaviour, one request at a time
MaxSessionDeltas == 1 \* upstream pieces of one stream, overlapping requests
MaxCalls == 2         \* chat calls of one behaviour, overlapping requests
MaxUnits == 2         \* upstream calls of one tracked request
MaxCancels == 2       \* cancel endpoint calls of one behaviour
MaxIngests == 2       \* pipeline calls of one behaviour
MaxRows == 3          \* rows of one answer of the reranker to the orchestrator
MaxDocuments == 3     \* documents of one rerank request
MaxReranks == 3       \* rerank calls of one behaviour
MaxAnswerLen == 3     \* characters of the raw answer of one chat response
MaxStoreOps == 3      \* session store calls of one behaviour
MaxNormLen == 5       \* characters of a text that is normalized
MaxSentences == 3     \* sentences of a text that is chunked
MaxProjectOps == 4    \* calls that create, fill or delete projects
MaxGwLines == 3       \* lines the upstream delivers to one streamed completion

\* ------------------------------------------------------------ Part I: text
WordChar == "a"
Blank == " "
Newline == "\n"
SourceTag == "[S1]"
Char == {WordChar, Blank, Newline, SourceTag}
\* the markers [S1], [S2], [S3], each one character
CitationTags == <<SourceTag, "[S2]", "[S3]">>
IsTag(c) == \E k \in 1..Len(CitationTags) : CitationTags[k] = c

IsSpace(c) == c \in {Blank, Newline}

RECURSIVE LStrip(_)
LStrip(s) == IF s = <<>> THEN s
             ELSE IF IsSpace(Head(s)) THEN LStrip(Tail(s)) ELSE s

RECURSIVE RStrip(_)
RStrip(s) == IF s = <<>> THEN s
             ELSE IF IsSpace(s[Len(s)]) THEN RStrip(SubSeq(s, 1, Len(s) - 1)) ELSE s

\* str.strip()
Strip(s) == RStrip(LStrip(s))

RECURSIVE Concat(_)
Concat(parts) == IF parts = <<>> THEN <<>> ELSE Head(parts) \o Concat(Tail(parts))

\* first index >= i of s that holds no whitespace (Len(s) + 1 when none)
RECURSIVE SkipSpaces(_, _)
SkipSpaces(s, i) == IF i <= Len(s) /\ IsSpace(s[i]) THEN SkipSpaces(s, i + 1) ELSE i

\* the pattern \s*[\[【](S\d+)[\]】]\s* matched at position i: the index after
\* the match, or 0 when it does not match there
TagMatchEnd(s, i) ==
    LET j == SkipSpaces(s, i)
    IN  IF j <= Len(s) /\ IsTag(s[j]) THEN SkipSpaces(s, j + 1) ELSE 0

\* _inline_source_tag_pattern.sub(" ", answer), scanning from position i
RECURSIVE SubTagsFrom(_, _)
SubTagsFrom(s, i) ==
    IF i > Len(s) THEN <<>>
    ELSE LET e == TagMatchEnd(s, i)
         IN  IF e # 0 THEN <<Blank>> \o SubTagsFrom(s, e)
             ELSE <<s[i]>> \o SubTagsFrom(s, i + 1)

FirstNewline(s) ==
    IF \E k \in 1..Len(s) : s[k] = Newline
    THEN CHOOSE k \in 1..Len(s) : s[k] = Newline /\ \A m \in 1..(k - 1) : s[m] # Newline
    ELSE 0

\* str.splitlines(): no empty last line after a final newline
RECURSIVE SplitLines(_)
SplitLines(s) ==
    IF s = <<>> THEN <<>>
    ELSE LET k == FirstNewline(s)
         IN  IF k = 0 THEN <<s>>
             ELSE <<SubSeq(s, 1, k - 1)>> \o SplitLines(SubSeq(s, k + 1, Len(s)))

\* re.sub(r"[ \t]+", " ", line)
RECURSIVE CollapseBlanks(_)
CollapseBlanks(s) ==
    IF Len(s) < 2 THEN s
    ELSE IF s[1] = Blank /\ s[2] = Blank THEN CollapseBlanks(Tail(s))
         ELSE <<s[1]>> \o CollapseBlanks(Tail(s))

RECURSIVE JoinLines(_)
JoinLines(lines) ==
    IF lines = <<>> THEN <<>>
    ELSE IF Len(lines) = 1 THEN lines[1]
         ELSE lines[1] \o <<Newline>> \o JoinLines(Tail(lines))

KeepLine(line, n) == line # <<>> \/ n = 1

\* RagRerankedChatService._strip_inline_source_tags
StripInlineSourceTags(answer) ==
    IF Strip(answer) = <<>> THEN <<>>
    ELSE LET cleaned == SubTagsFrom(answer, 1)
             lines == SplitLines(cleaned)
             cleaned_lines == [k \in 1..Len(lines) |-> Strip(CollapseBlanks(lines[k]))]
             kept == SelectSeq(cleaned_lines, LAMBDA l : KeepLine(l, Len(cleaned_lines)))
         IN  Strip(JoinLines(kept))

\* -------------------------------------------- Part II: RAG chat requests
Workers == {"w1", "w2"}
NoWorker == "none"
Variants == {"hybrid", "reranked"}
Modes == {"stateless", "session"}
Transports == {"stream", "batch"}
SessionIds == {"s1"}
UserMessages == {<<WordChar>>, <<Blank, WordChar>>, <<Blank>>}
Windows == {0, 1, 2}
STREAM_CHUNK_SIZE == 20

\* upstream content pieces of a streamed completion; the empty piece is a
\* frame without content
Pieces == {<<>>} \cup {<<c>> : c \in Char}
FewPieces == {<<WordChar>>}
\* contents of a non-streamed completion; one is longer than a stream chunk
LongAnswer == [k \in 1..(STREAM_CHUNK_SIZE + 1) |-> WordChar]
BatchContents == {<<WordChar>>, <<WordChar, Blank, SourceTag>>, <<SourceTag>>,
                  <<Blank>>, LongAnswer}
FewContents == {<<WordChar>>, <<Blank>>}

DomainDetail == <<"ExternalServiceError">>
UnexpectedDetail == <<"Unexpected streaming error">>
Failures == {"domain", "unexpected"}

NoRequest == [variant |-> "none", mode |-> "none", transport |-> "none",
              session |-> "none", message |-> <<>>, window |-> 0, turn |-> 0]
Requests == [variant : Variants, mode : Modes, transport : Transports,
             session : SessionIds, message : UserMessages, window : Windows,
             turn : {0}]

Threads == Variants \X SessionIds
NoLlm == [sent |-> FALSE, history |-> <<>>, question |-> <<>>]
NoRow == [exists |-> FALSE, messages |-> <<>>, message_count |-> 0]

VARIABLES
    pc,              \* position of each worker in its request handler
    req,             \* the request a worker is serving
    sse,             \* SSE events the worker's stream has emitted
    upstream,        \* content pieces the inference backend has sent
    answer_parts,    \* answer_parts of stream_chat_*
    graph_messages,  \* the message list of the worker's graph state
    llm,             \* messages sent to the chat model
    answer,          \* answer of the graph state or of the stream
    outcome,         \* how the worker's call ended
    checkpoint,      \* checkpoint store: thread id -> message list
    session_lock,    \* _session_lock of each graph service
    session_rows,    \* reranked session store: session id -> row
    calls,           \* chat calls started so far
    loaded,          \* the session row append_turn has read and not yet committed
    events,          \* OperationManager._events: operation id -> the request whose Event it holds
    event_set,       \* the flag of the asyncio.Event each tracked request registered
    op_pc,           \* position of each tracked request
    op_id,           \* operation id of each tracked request
    units_left,      \* upstream calls the tracked request still has to make
    request_task,    \* state of the request's HTTP task
    cancel_task,     \* state of the request's cancel_event.wait() task
    ready,           \* the event loop's FIFO queue of scheduled callbacks
    op_result,       \* how the tracked request ended
    cancel_calls,    \* number of cancel endpoint calls answered so far
    last_cancel,     \* the latest cancel call and its answer
    cancelled_in_flight \* requests whose flag a cancel call set while their HTTP call was in flight

\* the ingestion pipeline
VARIABLES
    ing_pc,            \* position of the pipeline handler
    ing_req,           \* the request it is serving
    ing_chunks,        \* the chunks it has computed so far
    ing_result,        \* what the last call returned or raised
    ing_calls,         \* pipeline calls started so far
    sql_pending,       \* the document flushed in the open transaction
    sql_documents,     \* the committed documents with their chunk rows
    qdrant_points,     \* the points of the vector store
    collection_exists  \* whether the project's collection exists

\* retrieval
VARIABLES
    chat_response,        \* the chat response that was built last, with its inputs
    store_row,            \* the row of one session in the reranked session store
    store_last,           \* the latest call of the session store and its inputs
    store_ops,            \* session store calls made so far
    norm_result,          \* the normalization that ran, and the one of its output
    chunk_result,         \* the deterministic chunking that ran
    hybrid_result,        \* the hybrid retrieval that ran, and its repetition
    reranked_result,      \* the reranked retrieval that ran
    unload_after_request, \* setting of the reranker backend
    model_cache,          \* resolved names of the models the reranker holds
    cache_lock,           \* holder of the reranker's cache lock, 0 when free
    loads,                \* calls of the model loader, for each model
    rr_calls,             \* rerank calls started so far
    rr_pc,                \* position of each rerank call
    rr_req,               \* the request of each caller's latest call
    rr_scores,            \* the scores the encoder gave in that call
    rr_result,            \* what that call returned or raised
    rr_encoder            \* the model instance each call refers to, 0 for None

\* deletions of sessions
VARIABLES
    deletion           \* for each session id: what its latest deletion removed

\* projects of the ingestion backend, their documents and the vector store
VARIABLES
    projects,          \* for each project id: the row of table `projects`
    project_documents, \* the rows of table `documents`
    collections,       \* for each collection name: whether it exists, its points
    project_calls,     \* calls of the project and ingestion services so far
    project_result     \* what the latest of those calls did

\* one streamed chat completion of the inference gateway
VARIABLES
    gw_pc,             \* idle, streaming, finishing, closed or failed
    gw_lines,          \* lines the upstream has delivered so far
    gw_frames,         \* frames written to the client
    gw_usage           \* prompt_tokens, completion_tokens, finish_reason so far

ragVars == <<pc, req, sse, upstream, answer_parts, graph_messages, llm, answer,
             outcome, checkpoint, session_lock, session_rows, calls, loaded>>
opVars == <<events, event_set, op_pc, op_id, units_left, request_task, cancel_task,
            ready, op_result, cancel_calls, last_cancel, cancelled_in_flight>>
pipeVars == <<ing_pc, ing_req, ing_chunks, ing_result, ing_calls, sql_pending,
              sql_documents, qdrant_points, collection_exists>>
rerankerVars == <<unload_after_request, model_cache, cache_lock, loads, rr_calls, rr_pc,
                  rr_req, rr_scores, rr_result, rr_encoder>>
rankVars == <<hybrid_result, reranked_result, rerankerVars>>
storeVars == <<store_row, store_last, store_ops>>
textVars == <<norm_result, chunk_result>>
extraVars == <<chat_response, storeVars, textVars>>
projectVars == <<projects, project_documents, collections, project_calls, project_result>>
gwVars == <<gw_pc, gw_lines, gw_frames, gw_usage>>
moreVars == <<deletion, projectVars, gwVars>>
outsideProject == <<ragVars, opVars, pipeVars, rankVars, extraVars, deletion, gwVars>>
outsideGw == <<ragVars, opVars, pipeVars, rankVars, extraVars, deletion, projectVars>>
toolVars == <<pipeVars, rankVars, extraVars, moreVars>>
outsidePipe == <<ragVars, opVars, rankVars, extraVars, moreVars>>
outsideRank == <<ragVars, opVars, pipeVars, extraVars, moreVars>>
outsideExtra == <<ragVars, opVars, pipeVars, rankVars, moreVars>>
vars == <<ragVars, opVars, toolVars>>

Thread(r) == <<r.variant, r.session>>
IsSession(w) == req[w].mode = "session"
\* the reranked stream endpoints stream the completion; every other endpoint
\* runs the graph and, on the hybrid stream routes, cuts the answer in pieces
Streams(r) == r.variant = "reranked" /\ r.transport = "stream"

UserMessage(r) == [role |-> "user", content |-> r.message, turn |-> r.turn]

LastN(s, n) == IF Len(s) > n THEN SubSeq(s, Len(s) - n + 1, Len(s)) ELSE s

\* _to_openai_messages
_to_openai_messages(messages) ==
    LET stripped == [k \in 1..Len(messages) |->
                        [role |-> messages[k].role, content |-> Strip(messages[k].content)]]
    IN  SelectSeq(stripped, LAMBDA m : m.content # <<>>)

RECURSIVE _latest_user_query(_)
_latest_user_query(messages) ==
    IF messages = <<>> THEN <<>>
    ELSE LET m == messages[Len(messages)]
         IN  IF m.role = "user" /\ Strip(m.content) # <<>> THEN Strip(m.content)
             ELSE _latest_user_query(SubSeq(messages, 1, Len(messages) - 1))

\* _split_history_and_current_question
_split_history_and_current_question(messages, fallback_query) ==
    LET openai_messages == _to_openai_messages(messages)
        n == Len(openai_messages)
    IN  IF n > 0 /\ openai_messages[n].role = "user"
        THEN [history |-> SubSeq(openai_messages, 1, n - 1),
              current |-> Strip(openai_messages[n].content)]
        ELSE [history |-> openai_messages, current |-> fallback_query]

HistoryUncut(history, window) == history
\* history_messages[-history_window:] if history_window > 0 else []
HistoryWindow(history, window) == IF window > 0 THEN LastN(history, window) ELSE <<>>

\* RagRerankedGraphService._build_generation_messages
_build_generation_messages(messages, window) ==
    LET query == _latest_user_query(messages)
        split == _split_history_and_current_question(messages, query)
    IN  [sent |-> TRUE,
         history |-> HistoryWindow(split.history, window),
         question |-> IF Strip(split.current) # <<>> THEN Strip(split.current) ELSE query]

\* RagGraphService._generate_node: the prompt of the hybrid variant
_generate_node_messages(messages, window) ==
    LET query == _latest_user_query(messages)
        split == _split_history_and_current_question(messages, query)
    IN  [sent |-> TRUE,
         history |-> HistoryWindow(split.history, window),
         question |-> query]

GenerationMessages(r, messages) ==
    IF r.variant = "reranked" THEN _build_generation_messages(messages, r.window)
    ELSE _generate_node_messages(messages, r.window)

\* a mutant of the lock: it never blocks
LockNeverBlocks(variant) == TRUE

\* threading.Lock: `with self._session_lock` may be entered
LockFree(variant) == session_lock[variant] = NoWorker

\* a mutant of prepare_stream_stateless / invoke_stateless: the stateless graph
\* is compiled with the checkpointer
StatelessReadsCheckpoint(r) == checkpoint[Thread(r)]

\* messages a stateless call starts from, besides its own message
StatelessPrevious(r) == <<>>

\* snapshot.values.get("messages") of the request's thread
SessionPrevious(r) == checkpoint[Thread(r)]

\* a mutant of the messages reducer: the new messages replace the stored ones
ReplaceMessages(existing, new) == new

\* the add_messages reducer of the graph state: new messages are appended
add_messages(existing, new) == existing \o new

Event(name, body) == [name |-> name, body |-> body]

\* a mutant of the error event: it carries no detail
NoDetail(f) == <<>>

FailureDetail(f) == IF f = "domain" THEN DomainDetail ELSE UnexpectedDetail

\* a mutant of event_stream: an exception closes the stream silently
ErrorEventsNone(r, f) == <<>>

\* event_stream of the stream routes: an exception ends the stream with one
\* `error` event
ErrorEvents(r, f) == IF r.transport = "stream" THEN <<Event("error", FailureDetail(f))>> ELSE <<>>

\* a mutant of _build_response: the answer is lost
ResponseAnswerEmpty(a) == <<>>

\* a mutant of persist_session_turn: the assistant content is lost
AssistantContentEmpty(assistant_message) == <<>>

\* persist_session_turn: assistant_content = assistant_message.strip()
AssistantContent(assistant_message) == Strip(assistant_message)

\* _build_response: answer_raw = str(answer).strip(); answer = strip(answer_raw)
ResponseAnswer(a) == StripInlineSourceTags(Strip(a))

append_turn_unchecked(row, user_message, assistant_message, turn) ==
    LET messages == row.messages
                        \o <<[role |-> "user", content |-> Strip(user_message), turn |-> turn],
                             [role |-> "assistant", content |-> Strip(assistant_message),
                              turn |-> turn]>>
    IN  [exists |-> TRUE, messages |-> messages, message_count |-> Len(messages)]
append_turn_stale_count(row, user_message, assistant_message, turn) ==
    [append_turn_unchecked(row, user_message, assistant_message, turn)
         EXCEPT !.message_count = row.message_count]
\* append_turn of the reranked session store
append_turn(row, user_message, assistant_message, turn) ==
    LET user_content == Strip(user_message)
        assistant_content == Strip(assistant_message)
        with_user == IF user_content # <<>>
                     THEN Append(row.messages,
                                 [role |-> "user", content |-> user_content, turn |-> turn])
                     ELSE row.messages
        messages == IF assistant_content # <<>>
                    THEN Append(with_user,
                                [role |-> "assistant", content |-> assistant_content, turn |-> turn])
                    ELSE with_user
    IN  [exists |-> TRUE, messages |-> messages, message_count |-> Len(messages)]

RagInit ==
    /\ pc = [w \in Workers |-> "idle"]
    /\ req = [w \in Workers |-> NoRequest]
    /\ sse = [w \in Workers |-> <<>>]
    /\ upstream = [w \in Workers |-> <<>>]
    /\ answer_parts = [w \in Workers |-> <<>>]
    /\ graph_messages = [w \in Workers |-> <<>>]
    /\ llm = [w \in Workers |-> NoLlm]
    /\ answer = [w \in Workers |-> <<>>]
    /\ outcome = [w \in Workers |-> "none"]
    /\ checkpoint = [t \in Threads |-> <<>>]
    /\ session_lock = [v \in Variants |-> NoWorker]
    /\ session_rows = [s \in SessionIds |-> NoRow]
    /\ calls = 0
    /\ loaded = [w \in Workers |-> NoRow]

Rag(w, npc, nsse, nout) ==
    /\ pc' = [pc EXCEPT ![w] = npc]
    /\ sse' = [sse EXCEPT ![w] = nsse]
    /\ outcome' = [outcome EXCEPT ![w] = nout]

\* a chat endpoint receives a request
StartCall(w, r, max_calls) ==
    /\ pc[w] \in {"idle", "closed"}
    /\ calls < max_calls
    /\ calls' = calls + 1
    /\ req' = [req EXCEPT ![w] = [r EXCEPT !.turn = calls + 1]]
    /\ Rag(w, IF Streams(r) THEN "prepare" ELSE "invoke", <<>>, "running")
    /\ upstream' = [upstream EXCEPT ![w] = <<>>]
    /\ answer_parts' = [answer_parts EXCEPT ![w] = <<>>]
    /\ graph_messages' = [graph_messages EXCEPT ![w] = <<>>]
    /\ llm' = [llm EXCEPT ![w] = NoLlm]
    /\ answer' = [answer EXCEPT ![w] = <<>>]
    /\ UNCHANGED <<checkpoint, session_lock, session_rows, loaded, opVars, toolVars>>

\* ---- the reranked stream endpoints (stream_chat_stateless, stream_chat_session)

\* prepare_stream_stateless / prepare_stream_session up to the merged messages;
\* the session variant reads the thread's snapshot under the lock
PrepareStream(w) ==
    /\ pc[w] = "prepare"
    /\ IsSession(w) => LockFree(req[w].variant)
    /\ graph_messages' = [graph_messages EXCEPT ![w] =
           (IF IsSession(w) THEN SessionPrevious(req[w]) ELSE StatelessPrevious(req[w]))
           \o <<UserMessage(req[w])>>]
    /\ Rag(w, "retrieve", sse[w], outcome[w])
    /\ UNCHANGED <<req, upstream, answer_parts, llm, answer, checkpoint,
                   session_lock, session_rows, calls, loaded, opVars, toolVars>>

\* _retrieve_node and _build_generation_messages succeed; the `meta` event
RetrieveOk(w) ==
    /\ pc[w] = "retrieve"
    /\ llm' = [llm EXCEPT ![w] = GenerationMessages(req[w], graph_messages[w])]
    /\ Rag(w, "generate", Append(sse[w], Event("meta", <<>>)), outcome[w])
    /\ UNCHANGED <<req, upstream, answer_parts, graph_messages, answer, checkpoint,
                   session_lock, session_rows, calls, loaded, opVars, toolVars>>

\* the stream raises and event_stream of the route turns it into `error`
StreamFails(w, f) ==
    /\ Rag(w, "closed", sse[w] \o ErrorEvents(req[w], f), "error")
    /\ UNCHANGED <<req, upstream, answer_parts, graph_messages, llm, answer,
                   checkpoint, session_rows, calls, loaded, opVars, toolVars>>

\* retrieval (project lookup, embedding, vector search, rerank) raises
RetrieveFail(w, f) ==
    /\ pc[w] = "retrieve"
    /\ StreamFails(w, f)
    /\ UNCHANGED session_lock

\* stream_chat_deltas yields one content piece of the upstream stream; empty
\* pieces are dropped, the others become `delta` events
UpstreamDelta(w, piece, max_deltas) ==
    /\ pc[w] = "generate"
    /\ Len(upstream[w]) < max_deltas
    /\ upstream' = [upstream EXCEPT ![w] = Append(@, piece)]
    /\ IF piece = <<>>
       THEN UNCHANGED <<answer_parts, sse>>
       ELSE /\ answer_parts' = [answer_parts EXCEPT ![w] = Append(@, piece)]
            /\ sse' = [sse EXCEPT ![w] = Append(@, Event("delta", piece))]
    /\ UNCHANGED <<pc, outcome, req, graph_messages, llm, answer, checkpoint,
                   session_lock, session_rows, calls, loaded, opVars, toolVars>>

\* the upstream stream ends ([DONE] or end of body)
UpstreamEnd(w) ==
    /\ pc[w] = "generate"
    /\ answer' = [answer EXCEPT ![w] =
           IF IsSession(w) THEN StripInlineSourceTags(Concat(answer_parts[w]))
           ELSE Concat(answer_parts[w])]
    /\ Rag(w, IF IsSession(w) THEN "persist" ELSE "respond", sse[w], outcome[w])
    /\ UNCHANGED <<req, upstream, answer_parts, graph_messages, llm, checkpoint,
                   session_lock, session_rows, calls, loaded, opVars, toolVars>>

\* the upstream stream fails (HTTP error, malformed frame)
UpstreamFail(w, f) ==
    /\ pc[w] = "generate"
    /\ StreamFails(w, f)
    /\ UNCHANGED session_lock

\* persist_session_turn: nothing is written for an empty user message;
\* otherwise the lock is taken and the user message is written
PersistUser(w) ==
    /\ pc[w] = "persist"
    /\ IF Strip(req[w].message) = <<>>
       THEN /\ Rag(w, "respond", sse[w], outcome[w])
            /\ UNCHANGED <<checkpoint, session_lock>>
       ELSE /\ LockFree(req[w].variant)
            /\ session_lock' = [session_lock EXCEPT ![req[w].variant] = w]
            /\ checkpoint' = [checkpoint EXCEPT ![Thread(req[w])] =
                   add_messages(@, <<[role |-> "user", content |-> Strip(req[w].message),
                                      turn |-> req[w].turn]>>)]
            /\ Rag(w, "persist_assistant", sse[w], outcome[w])
    /\ UNCHANGED <<req, upstream, answer_parts, graph_messages, llm, answer,
                   session_rows, calls, loaded, opVars, toolVars>>

\* persist_session_turn: the assistant message is written when it is not
\* empty, and the lock is released
PersistAssistant(w) ==
    /\ pc[w] = "persist_assistant"
    /\ checkpoint' = [checkpoint EXCEPT ![Thread(req[w])] =
           IF AssistantContent(answer[w]) # <<>>
           THEN add_messages(@, <<[role |-> "assistant",
                                   content |-> AssistantContent(answer[w]),
                                   turn |-> req[w].turn]>>)
           ELSE @]
    /\ session_lock' = [session_lock EXCEPT ![req[w].variant] = NoWorker]
    /\ Rag(w, "respond", sse[w], outcome[w])
    /\ UNCHANGED <<req, upstream, answer_parts, graph_messages, llm, answer,
                   session_rows, calls, loaded, opVars, toolVars>>

\* update_state of the assistant message raises: the lock is released and the
\* user message stays
PersistAssistantFail(w, f) ==
    /\ pc[w] = "persist_assistant"
    /\ AssistantContent(answer[w]) # <<>>
    /\ session_lock' = [session_lock EXCEPT ![req[w].variant] = NoWorker]
    /\ StreamFails(w, f)

\* the commit of append_turn inserts a row that another call has inserted
\* since this call looked for it
InsertConflict(w) == ~loaded[w].exists /\ session_rows[req[w].session].exists

\* append_turn: db.get reads the session row (a new row when there is none)
SnapshotLoad(w) ==
    /\ pc[w] \in {"respond", "graph_respond"}
    /\ IsSession(w) /\ req[w].variant = "reranked"
    /\ loaded' = [loaded EXCEPT ![w] = session_rows[req[w].session]]
    /\ Rag(w, IF pc[w] = "respond" THEN "commit" ELSE "graph_commit", sse[w], outcome[w])
    /\ UNCHANGED <<req, upstream, answer_parts, graph_messages, llm, answer,
                   checkpoint, session_lock, session_rows, calls, opVars, toolVars>>

\* _build_stream_response, the commit of append_turn, the `done` event
Respond(w) ==
    /\ \/ pc[w] = "respond" /\ ~IsSession(w)
       \/ pc[w] = "commit" /\ ~InsertConflict(w)
    /\ session_rows' = IF IsSession(w)
           THEN [session_rows EXCEPT ![req[w].session] =
                    append_turn(loaded[w], req[w].message, ResponseAnswer(answer[w]),
                                req[w].turn)]
           ELSE session_rows
    /\ loaded' = [loaded EXCEPT ![w] = NoRow]
    /\ Rag(w, "closed", Append(sse[w], Event("done", ResponseAnswer(answer[w]))), "ok")
    /\ UNCHANGED <<req, upstream, answer_parts, graph_messages, llm, answer,
                   checkpoint, session_lock, calls, opVars, toolVars>>

\* append_turn of the session store raises: the database fails, or the row it
\* inserts exists by now
RespondFail(w, f) ==
    /\ pc[w] = "commit"
    /\ StreamFails(w, IF InsertConflict(w) THEN "unexpected" ELSE f)
    /\ UNCHANGED session_lock

\* ---- the endpoints that run the graph (invoke_stateless, invoke_session)

\* invoke_session takes the lock for the whole run and starts from the thread's
\* messages; invoke_stateless starts from the request's message alone
InvokeBegin(w) ==
    /\ pc[w] = "invoke"
    /\ IF IsSession(w)
       THEN /\ LockFree(req[w].variant)
            /\ session_lock' = [session_lock EXCEPT ![req[w].variant] = w]
       ELSE UNCHANGED session_lock
    /\ graph_messages' = [graph_messages EXCEPT ![w] =
           (IF IsSession(w) THEN SessionPrevious(req[w]) ELSE StatelessPrevious(req[w]))
           \o <<UserMessage(req[w])>>]
    /\ Rag(w, "graph_retrieve", sse[w], outcome[w])
    /\ UNCHANGED <<req, upstream, answer_parts, llm, answer, checkpoint,
                   session_rows, calls, loaded, opVars, toolVars>>

\* _retrieve_node succeeds
GraphRetrieveOk(w) ==
    /\ pc[w] = "graph_retrieve"
    /\ Rag(w, "graph_generate", sse[w], outcome[w])
    /\ UNCHANGED <<req, upstream, answer_parts, graph_messages, llm, answer,
                   checkpoint, session_lock, session_rows, calls, loaded, opVars, toolVars>>

\* _generate_node: complete_chat returns a non-empty completion; in session
\* mode the run's messages are checkpointed and the lock is released
GraphGenerateOk(w, content) ==
    /\ pc[w] = "graph_generate"
    /\ Strip(content) # <<>>
    /\ llm' = [llm EXCEPT ![w] = GenerationMessages(req[w], graph_messages[w])]
    /\ answer' = [answer EXCEPT ![w] = Strip(content)]
    /\ graph_messages' = [graph_messages EXCEPT ![w] =
           add_messages(@, <<[role |-> "assistant", content |-> Strip(content),
                              turn |-> req[w].turn]>>)]
    /\ IF IsSession(w)
       THEN /\ checkpoint' = [checkpoint EXCEPT ![Thread(req[w])] = graph_messages'[w]]
            /\ session_lock' = [session_lock EXCEPT ![req[w].variant] = NoWorker]
       ELSE UNCHANGED <<checkpoint, session_lock>>
    /\ Rag(w, "graph_respond", sse[w], outcome[w])
    /\ UNCHANGED <<req, upstream, answer_parts, session_rows, calls, loaded, opVars, toolVars>>

\* a node of the graph raises (retrieval fails, the completion fails or is
\* empty).  The lock is released.  The checkpointer of the graph library may
\* already have stored the run's input: both outcomes are allowed.
GraphFail(w, f, input_kept) ==
    /\ pc[w] \in {"graph_retrieve", "graph_generate"}
    /\ IF IsSession(w)
       THEN /\ session_lock' = [session_lock EXCEPT ![req[w].variant] = NoWorker]
            /\ checkpoint' = [checkpoint EXCEPT ![Thread(req[w])] =
                   IF input_kept THEN graph_messages[w] ELSE @]
       ELSE UNCHANGED <<checkpoint, session_lock>>
    /\ Rag(w, "closed", sse[w] \o ErrorEvents(req[w], f), "error")
    /\ UNCHANGED <<req, upstream, answer_parts, graph_messages, llm, answer,
                   session_rows, calls, loaded, opVars, toolVars>>

\* _chunk_text of the hybrid stream routes
RECURSIVE _chunk_text(_, _)
_chunk_text(text, size) ==
    IF text = <<>> THEN <<<<>>>>
    ELSE IF Len(text) <= size THEN <<text>>
         ELSE <<SubSeq(text, 1, size)>> \o _chunk_text(SubSeq(text, size + 1, Len(text)), size)

\* event_stream of the hybrid stream routes after chat_* has returned
PseudoStream(response_answer) ==
    LET pieces == _chunk_text(response_answer, STREAM_CHUNK_SIZE)
    IN  <<Event("meta", <<>>)>>
        \o [k \in 1..Len(pieces) |-> Event("delta", pieces[k])]
        \o <<Event("done", response_answer)>>

\* _build_response, append_turn (reranked session calls), and the reply: the
\* response body, or the meta/delta/done events of the hybrid stream routes
GraphRespond(w) ==
    /\ \/ pc[w] = "graph_respond" /\ ~(IsSession(w) /\ req[w].variant = "reranked")
       \/ pc[w] = "graph_commit" /\ ~InsertConflict(w)
    /\ session_rows' = IF pc[w] = "graph_commit"
           THEN [session_rows EXCEPT ![req[w].session] =
                    append_turn(loaded[w], req[w].message, ResponseAnswer(answer[w]),
                                req[w].turn)]
           ELSE session_rows
    /\ loaded' = [loaded EXCEPT ![w] = NoRow]
    /\ Rag(w, "closed",
           IF req[w].transport = "stream" THEN PseudoStream(ResponseAnswer(answer[w])) ELSE <<>>,
           "ok")
    /\ UNCHANGED <<req, upstream, answer_parts, graph_messages, llm, answer,
                   checkpoint, session_lock, calls, opVars, toolVars>>

\* append_turn raises after the graph has run
GraphRespondFail(w, f) ==
    /\ pc[w] = "graph_commit"
    /\ Rag(w, "closed",
           sse[w] \o ErrorEvents(req[w], IF InsertConflict(w) THEN "unexpected" ELSE f),
           "error")
    /\ UNCHANGED <<req, upstream, answer_parts, graph_messages, llm, answer,
                   checkpoint, session_lock, session_rows, calls, loaded, opVars, toolVars>>

\* create_session of the session store: inserts a row without messages, and
\* raises when the id is taken
create_session(s) ==
    /\ ~session_rows[s].exists
    /\ session_rows' = [session_rows EXCEPT ![s] =
           [exists |-> TRUE, messages |-> <<>>, message_count |-> 0]]
    /\ UNCHANGED <<pc, req, sse, upstream, answer_parts, graph_messages, llm, answer,
                   outcome, checkpoint, session_lock, calls, loaded, opVars, toolVars>>

\* the inputs of a behaviour: the requests, the upstream pieces of a stream,
\* the completions of a graph run, the failures, and the two bounds
RagStep(w, in) ==
    \/ \E r \in in.requests : StartCall(w, r, in.max_calls)
    \/ \E s \in SessionIds : create_session(s)
    \/ PrepareStream(w)
    \/ RetrieveOk(w)
    \/ \E f \in in.failures : RetrieveFail(w, f)
    \/ \E piece \in in.pieces : UpstreamDelta(w, piece, in.max_deltas)
    \/ UpstreamEnd(w)
    \/ \E f \in in.failures : UpstreamFail(w, f)
    \/ PersistUser(w)
    \/ PersistAssistant(w)
    \/ \E f \in in.failures : PersistAssistantFail(w, f)
    \/ SnapshotLoad(w)
    \/ Respond(w)
    \/ \E f \in in.failures : RespondFail(w, f)
    \/ InvokeBegin(w)
    \/ GraphRetrieveOk(w)
    \/ \E content \in in.contents : GraphGenerateOk(w, content)
    \/ \E f \in in.failures, input_kept \in BOOLEAN : GraphFail(w, f, input_kept)
    \/ GraphRespond(w)
    \/ \E f \in in.failures : GraphRespondFail(w, f)

\* ---------------------------------------------------------------------------
\* Part III. Operation manager and the cancel-aware chat client
\* ---------------------------------------------------------------------------
OpRequests == {"r1", "r2"}
OpIds == {"op1", "op2"}
NoOp == "none"
HttpOutcomes == {"response", "bad_response", "http_error"}
NoCancel == [operation_id |-> NoOp, cancelled |-> FALSE]
Handle(kind, r, unit) == [kind |-> kind, r |-> r, unit |-> unit]

Running(r) == op_pc[r] \in {"tracked", "waiting"}

\* a cancel call that reports TRUE whatever the registry holds
CancelAlwaysFound(operation_id) == TRUE

\* OperationManager.cancel: the lookup under the lock
CancelFinds(operation_id) == events[operation_id] # NoOp

\* OperationManager.release: pops the id whichever request registered it
release(r) == [events EXCEPT ![op_id[r]] = NoOp]

\* complete(), flag branch: request_task.cancel(), await it, raise
OutcomeWhenCancelled(task) ==
    IF task = "http_error" THEN "ExternalServiceError" ELSE "OperationCancelled"

\* complete(), other branch: await request_task, raise_for_status, parse
OutcomeWhenCompleted(task) ==
    IF task = "response" THEN "response" ELSE "ExternalServiceError"

OpInit ==
    /\ events = [id \in OpIds |-> NoOp]
    /\ event_set = [r \in OpRequests |-> FALSE]
    /\ op_pc = [r \in OpRequests |-> "idle"]
    /\ op_id = [r \in OpRequests |-> NoOp]
    /\ units_left = [r \in OpRequests |-> 0]
    /\ request_task = [r \in OpRequests |-> "none"]
    /\ cancel_task = [r \in OpRequests |-> "none"]
    /\ ready = <<>>
    /\ op_result = [r \in OpRequests |-> "none"]
    /\ cancel_calls = 0
    /\ last_cancel = NoCancel
    /\ cancelled_in_flight = {}

\* the request leaves the track() block: its result, then release in finally
Exit(r, result) ==
    /\ op_pc' = [op_pc EXCEPT ![r] = "ended"]
    /\ op_result' = [op_result EXCEPT ![r] = result]
    /\ events' = release(r)

\* track(): register a fresh Event under the id, replacing what was there
Track(r, operation_id, units) ==
    /\ op_pc[r] = "idle"
    /\ events' = [events EXCEPT ![operation_id] = r]
    /\ event_set' = [event_set EXCEPT ![r] = FALSE]
    /\ op_id' = [op_id EXCEPT ![r] = operation_id]
    /\ units_left' = [units_left EXCEPT ![r] = units]
    /\ op_pc' = [op_pc EXCEPT ![r] = "tracked"]
    /\ UNCHANGED <<request_task, cancel_task, ready, op_result, cancel_calls, last_cancel,
                   cancelled_in_flight, ragVars, toolVars>>

\* the callee finds the flag set before it starts an upstream call
CheckCancelled(r) ==
    /\ op_pc[r] = "tracked"
    /\ event_set[r]
    /\ Exit(r, "OperationCancelled")
    /\ UNCHANGED <<event_set, op_id, units_left, request_task, cancel_task, ready,
                   cancel_calls, last_cancel, cancelled_in_flight, ragVars, toolVars>>

\* complete(): create request_task and cancel_task, suspend in asyncio.wait
PostRequest(r) ==
    /\ op_pc[r] = "tracked"
    /\ ~event_set[r]
    /\ request_task' = [request_task EXCEPT ![r] = "in_flight"]
    /\ cancel_task' = [cancel_task EXCEPT ![r] = "created"]
    /\ ready' = Append(ready, Handle("cancel_start", r, units_left[r]))
    /\ op_pc' = [op_pc EXCEPT ![r] = "waiting"]
    /\ UNCHANGED <<events, event_set, op_id, units_left, op_result, cancel_calls, last_cancel,
                   cancelled_in_flight, ragVars, toolVars>>

\* first step of cancel_task: cancel_event.wait() returns at once when the flag is set
CancelStart(r) ==
    /\ ready # <<>>
    /\ Head(ready) = Handle("cancel_start", r, units_left[r])
    /\ cancel_task[r] = "created"
    /\ IF event_set[r]
       THEN /\ cancel_task' = [cancel_task EXCEPT ![r] = "done"]
            /\ ready' = Append(Tail(ready), Handle("on_completion", r, units_left[r]))
       ELSE /\ cancel_task' = [cancel_task EXCEPT ![r] = "waiting"]
            /\ ready' = Tail(ready)
    /\ UNCHANGED <<events, event_set, op_pc, op_id, units_left, request_task, op_result,
                   cancel_calls, last_cancel, cancelled_in_flight, ragVars, toolVars>>

\* the cancel endpoint: OperationManager.cancel and its answer
Cancel(operation_id) ==
    /\ cancel_calls < MaxCancels
    /\ LET r == events[operation_id]
           found == CancelFinds(operation_id)
           sets == found /\ r \in OpRequests
       IN /\ cancel_calls' = cancel_calls + 1
          /\ last_cancel' = [operation_id |-> operation_id, cancelled |-> found]
          /\ event_set' = [q \in OpRequests |-> event_set[q] \/ (sets /\ q = r)]
          /\ ready' = IF sets /\ ~event_set[r] /\ cancel_task[r] = "waiting"
                      THEN Append(ready, Handle("cancel_wake", r, units_left[r]))
                      ELSE ready
          /\ cancelled_in_flight' =
                 IF sets /\ op_pc[r] = "waiting" /\ request_task[r] = "in_flight"
                 THEN cancelled_in_flight \cup {r}
                 ELSE cancelled_in_flight
    /\ UNCHANGED <<events, op_pc, op_id, units_left, request_task, cancel_task, op_result,
                   ragVars, toolVars>>

\* cancel_task resumes from cancel_event.wait() and finishes
CancelWake(r) ==
    /\ ready # <<>>
    /\ Head(ready).kind = "cancel_wake"
    /\ Head(ready).r = r
    /\ IF op_pc[r] = "waiting" /\ Head(ready).unit = units_left[r] /\ cancel_task[r] = "waiting"
       THEN /\ cancel_task' = [cancel_task EXCEPT ![r] = "done"]
            /\ ready' = Append(Tail(ready), Handle("on_completion", r, units_left[r]))
       ELSE /\ ready' = Tail(ready)
            /\ UNCHANGED cancel_task
    /\ UNCHANGED <<events, event_set, op_pc, op_id, units_left, request_task, op_result,
                   cancel_calls, last_cancel, cancelled_in_flight, ragVars, toolVars>>

\* the upstream answers or fails: request_task finishes
HttpResolve(r, http_outcome) ==
    /\ op_pc[r] = "waiting"
    /\ request_task[r] = "in_flight"
    /\ request_task' = [request_task EXCEPT ![r] = http_outcome]
    /\ ready' = Append(ready, Handle("on_completion", r, units_left[r]))
    /\ UNCHANGED <<events, event_set, op_pc, op_id, units_left, cancel_task, op_result,
                   cancel_calls, last_cancel, cancelled_in_flight, ragVars, toolVars>>

\* asyncio.wait's callback on a finished task: wake complete() once
OnCompletion(r) ==
    /\ ready # <<>>
    /\ Head(ready).kind = "on_completion"
    /\ Head(ready).r = r
    /\ LET wake == Handle("resume", r, units_left[r])
           first == /\ op_pc[r] = "waiting"
                    /\ Head(ready).unit = units_left[r]
                    /\ \A k \in 1..Len(ready) : ready[k] # wake
       IN ready' = IF first THEN Append(Tail(ready), wake) ELSE Tail(ready)
    /\ UNCHANGED <<events, event_set, op_pc, op_id, units_left, request_task, cancel_task,
                   op_result, cancel_calls, last_cancel, cancelled_in_flight, ragVars, toolVars>>

\* complete() resumes with cancel_task done and the flag set
ResumeCancelled(r) ==
    /\ ready # <<>>
    /\ Head(ready) = Handle("resume", r, units_left[r])
    /\ op_pc[r] = "waiting"
    /\ cancel_task[r] = "done" /\ event_set[r]
    /\ ready' = Tail(ready)
    /\ request_task' = [request_task EXCEPT
                           ![r] = IF @ = "in_flight" THEN "cancelled" ELSE @]
    /\ Exit(r, OutcomeWhenCancelled(request_task[r]))
    /\ UNCHANGED <<event_set, op_id, units_left, cancel_task, cancel_calls, last_cancel,
                   cancelled_in_flight, ragVars, toolVars>>

\* complete() resumes with request_task done: cancel the wait, take the response
ResumeCompleted(r) ==
    /\ ready # <<>>
    /\ Head(ready) = Handle("resume", r, units_left[r])
    /\ op_pc[r] = "waiting"
    /\ ~(cancel_task[r] = "done" /\ event_set[r])
    /\ ready' = Tail(ready)
    /\ cancel_task' = [cancel_task EXCEPT ![r] = "cancelled"]
    /\ IF OutcomeWhenCompleted(request_task[r]) = "response" /\ units_left[r] > 1
       THEN /\ op_pc' = [op_pc EXCEPT ![r] = "tracked"]
            /\ units_left' = [units_left EXCEPT ![r] = @ - 1]
            /\ UNCHANGED <<events, op_result>>
       ELSE /\ Exit(r, OutcomeWhenCompleted(request_task[r]))
            /\ UNCHANGED units_left
    /\ UNCHANGED <<event_set, op_id, request_task, cancel_calls, last_cancel, cancelled_in_flight,
                   ragVars, toolVars>>

OpStep ==
    \/ \E r \in OpRequests, id \in OpIds, units \in 1..MaxUnits : Track(r, id, units)
    \/ \E r \in OpRequests : CheckCancelled(r)
    \/ \E r \in OpRequests : PostRequest(r)
    \/ \E r \in OpRequests : CancelStart(r)
    \/ \E id \in OpIds : Cancel(id)
    \/ \E r \in OpRequests : CancelWake(r)
    \/ \E r \in OpRequests, o \in HttpOutcomes : HttpResolve(r, o)
    \/ \E r \in OpRequests : OnCompletion(r)
    \/ \E r \in OpRequests : ResumeCancelled(r)
    \/ \E r \in OpRequests : ResumeCompleted(r)

\* ---------------------------------------------------------------------------
\* Part VII. The ingestion pipeline: chunking and the ingest of a document
\* ---------------------------------------------------------------------------
HEADING_FUSION_SLACK == 80
ParagraphBreak == <<Newline, Newline>>
Max(a, b) == IF a >= b THEN a ELSE b
Min(a, b) == IF a <= b THEN a ELSE b

\* str.find(sub, start): the lowest 0-based index >= start where sub occurs
\* in text, -1 when there is none
Find(text, sub, start) ==
    LET hits == {i \in start..(Len(text) - Len(sub)) :
                     SubSeq(text, i + 1, i + Len(sub)) = sub}
    IN  IF hits = {} THEN -1 ELSE CHOOSE i \in hits : \A j \in hits : i <= j

\* text.split("\n\n")
RECURSIVE SplitParagraphs(_)
SplitParagraphs(text) ==
    LET k == Find(text, ParagraphBreak, 0)
    IN  IF k = -1 THEN <<text>>
        ELSE <<SubSeq(text, 1, k)>> \o SplitParagraphs(SubSeq(text, k + 3, Len(text)))

StripAll(parts) == [k \in 1..Len(parts) |-> Strip(parts[k])]
NonEmpty(parts) == SelectSeq(parts, LAMBDA p : p # <<>>)

\* DeterministicChunker._hard_wrap
RECURSIVE _hard_wrap(_, _)
_hard_wrap(text, max_chunk_chars) ==
    IF text = <<>> THEN <<>>
    ELSE NonEmpty(<<Strip(SubSeq(text, 1, Min(max_chunk_chars, Len(text))))>>)
         \o _hard_wrap(SubSeq(text, max_chunk_chars + 1, Len(text)), max_chunk_chars)

\* re.split(r"(?<=[.!?])\s+", paragraph): a cut at every run of whitespace
\* that follows a sentence end; the run itself is dropped
Period == "."
RECURSIVE SplitSentences(_)
SplitSentences(paragraph) ==
    LET cuts == {i \in 1..(Len(paragraph) - 1) :
                     paragraph[i] = Period /\ IsSpace(paragraph[i + 1])}
    IN  IF cuts = {} THEN <<paragraph>>
        ELSE LET i == CHOOSE c \in cuts : \A d \in cuts : c <= d
             IN  <<SubSeq(paragraph, 1, i)>>
                 \o SplitSentences(LStrip(SubSeq(paragraph, i + 1, Len(paragraph))))

\* the first loop of _split_long_paragraph: sentences are joined by a blank
\* while the piece fits into max_chunk_chars
RECURSIVE JoinSentences(_, _, _)
JoinSentences(sentences, current, max_chunk_chars) ==
    IF sentences = <<>> THEN (IF current = <<>> THEN <<>> ELSE <<current>>)
    ELSE LET tentative == Strip(current \o <<Blank>> \o Head(sentences))
         IN  IF Len(tentative) <= max_chunk_chars
             THEN JoinSentences(Tail(sentences), tentative, max_chunk_chars)
             ELSE <<current>> \o JoinSentences(Tail(sentences), Head(sentences), max_chunk_chars)

\* the second loop: a piece that is still too long is hard-wrapped
RECURSIVE NormalizePieces(_, _)
NormalizePieces(pieces, max_chunk_chars) ==
    IF pieces = <<>> THEN <<>>
    ELSE (IF Len(Head(pieces)) <= max_chunk_chars THEN <<Head(pieces)>>
          ELSE _hard_wrap(Head(pieces), max_chunk_chars))
         \o NormalizePieces(Tail(pieces), max_chunk_chars)

\* the third loop: a piece shorter than min_chunk_chars is appended to the
\* piece before it
RECURSIVE MergePieces(_, _, _)
MergePieces(normalized_pieces, merged_pieces, min_chunk_chars) ==
    IF normalized_pieces = <<>> THEN merged_pieces
    ELSE LET piece == Head(normalized_pieces)
             n == Len(merged_pieces)
         IN  IF n > 0 /\ Len(piece) < min_chunk_chars
             THEN MergePieces(Tail(normalized_pieces),
                              [merged_pieces EXCEPT ![n] = Strip(@ \o <<Blank>> \o piece)],
                              min_chunk_chars)
             ELSE MergePieces(Tail(normalized_pieces), Append(merged_pieces, piece),
                              min_chunk_chars)

\* DeterministicChunker._split_long_paragraph
_split_long_paragraph(paragraph, max_chunk_chars, min_chunk_chars) ==
    IF Len(paragraph) <= max_chunk_chars THEN <<paragraph>>
    ELSE LET sentences == NonEmpty(StripAll(SplitSentences(paragraph)))
         IN  IF Len(sentences) <= 1 THEN _hard_wrap(paragraph, max_chunk_chars)
             ELSE MergePieces(
                      NormalizePieces(
                          JoinSentences(Tail(sentences), Head(sentences), max_chunk_chars),
                          max_chunk_chars),
                      <<>>, min_chunk_chars)

RECURSIVE SplitAll(_, _, _)
SplitAll(paragraphs, max_chunk_chars, min_chunk_chars) ==
    IF paragraphs = <<>> THEN <<>>
    ELSE _split_long_paragraph(Head(paragraphs), max_chunk_chars, min_chunk_chars)
         \o SplitAll(Tail(paragraphs), max_chunk_chars, min_chunk_chars)

heading_fusion_budget(o) == o.max_chunk_chars + Max(HEADING_FUSION_SLACK, o.overlap_chars)

\* the first loop of chunk: paragraphs are joined while the chunk fits
RECURSIVE JoinParagraphs(_, _, _)
JoinParagraphs(paragraphs, current, o) ==
    IF paragraphs = <<>> THEN (IF current = <<>> THEN <<>> ELSE <<current>>)
    ELSE IF current = <<>> THEN JoinParagraphs(Tail(paragraphs), Head(paragraphs), o)
    ELSE LET tentative == current \o ParagraphBreak \o Head(paragraphs)
         IN  IF \/ Len(tentative) <= o.max_chunk_chars
                \/ /\ Len(current) < o.min_chunk_chars
                   /\ Len(tentative) <= heading_fusion_budget(o)
             THEN JoinParagraphs(Tail(paragraphs), tentative, o)
             ELSE <<current>> \o JoinParagraphs(Tail(paragraphs), Head(paragraphs), o)

\* the second loop of chunk: a short chunk is merged into the one before it
RECURSIVE MergeShort(_, _, _)
MergeShort(chunks, merged_chunks, o) ==
    IF chunks = <<>> THEN merged_chunks
    ELSE LET chunk == Head(chunks)
             n == Len(merged_chunks)
         IN  IF /\ n > 0
                /\ Len(chunk) < o.min_chunk_chars
                /\ Len(merged_chunks[n]) + 2 + Len(chunk) <= heading_fusion_budget(o)
             THEN MergeShort(Tail(chunks),
                             [merged_chunks EXCEPT
                                  ![n] = Strip(@ \o ParagraphBreak \o chunk)], o)
             ELSE MergeShort(Tail(chunks), Append(merged_chunks, chunk), o)

ChunkCandidate(index, start, end, text, rationale) ==
    [chunk_index |-> index, start_char |-> start, end_char |-> end,
     text |-> text, rationale |-> rationale]

DeterministicRationale == "Deterministic paragraph-aware boundary"
AgenticRationale == "Agentic boundary selection"
ManualRationale == "manual"

\* the cursor after a chunk that ends at `end`
NextCursor(end, overlap_chars) ==
    IF overlap_chars > 0 THEN Max(end - overlap_chars, 0) ELSE end

\* the third loop of chunk, and the loop of AgenticChunker.chunk (which has
\* no overlap): offsets by str.find from a cursor, indexes by enumerate
RECURSIVE Locate(_, _, _, _, _, _)
Locate(text, chunk_texts, index, cursor, overlap_chars, rationale) ==
    IF chunk_texts = <<>> THEN <<>>
    ELSE LET chunk_text == Head(chunk_texts)
             found == Find(text, chunk_text, cursor)
             start == IF found = -1 THEN cursor ELSE found
             end == start + Len(chunk_text)
         IN  <<ChunkCandidate(index, start, end, chunk_text, rationale)>>
             \o Locate(text, Tail(chunk_texts), index + 1,
                       NextCursor(end, overlap_chars), overlap_chars, rationale)

\* DeterministicChunker.chunk
DeterministicChunks(text, o) ==
    LET raw_paragraphs == NonEmpty(StripAll(SplitParagraphs(text)))
        paragraphs == SplitAll(raw_paragraphs, o.max_chunk_chars, o.min_chunk_chars)
        chunks == JoinParagraphs(paragraphs, <<>>, o)
    IN  Locate(text, MergeShort(chunks, <<>>, o), 0, 0, o.overlap_chars,
               DeterministicRationale)

\* AgenticChunker.chunk on a completion that lists the chunk texts raw_chunks:
\* an empty list and a blank text are validation errors
AgenticValid(raw_chunks) ==
    raw_chunks # <<>> /\ \A k \in 1..Len(raw_chunks) : Strip(raw_chunks[k]) # <<>>
AgenticChunks(text, raw_chunks) ==
    Locate(text, StripAll(raw_chunks), 0, 0, 0, AgenticRationale)

\* ---- requests of the pipeline endpoints
NoText == <<"None">>
IngestTexts ==
    {<<WordChar>>, <<Newline>>, <<WordChar, Newline, Newline, WordChar>>,
     <<WordChar, WordChar, WordChar, Newline, Newline, WordChar>>}
ChunkOptions ==
    {[max_chunk_chars |-> 2, min_chunk_chars |-> 1, overlap_chars |-> 0],
     [max_chunk_chars |-> 3, min_chunk_chars |-> 2, overlap_chars |-> 1]}
\* the chunk texts of a completion of the chat model
AgenticCompletions == {<<>>, <<<<WordChar>>>>, <<<<WordChar>>, <<WordChar>>>>}
AgenticErrors == {"ValidationDomainError", "ExternalServiceError"}
ApprovedChunk(index, start, end) ==
    ChunkCandidate(index, start, end, <<WordChar>>, ManualRationale)
ApprovedLists ==
    {<<>>, <<ApprovedChunk(0, 0, 1)>>, <<ApprovedChunk(1, 0, 1)>>,
     <<ApprovedChunk(0, 1, 1)>>, <<ApprovedChunk(0, 0, 1), ApprovedChunk(1, 1, 2)>>}

NoIngRequest ==
    [op |-> "none", workflow |-> "none", mode |-> "none", text |-> <<>>,
     options |-> [max_chunk_chars |-> 0, min_chunk_chars |-> 0, overlap_chars |-> 0],
     headers |-> "none", approved |-> <<>>, project_found |-> FALSE]
\* POST /chunk
ChunkRequests ==
    {[NoIngRequest EXCEPT !.op = "chunk", !.mode = m, !.text = t, !.options = o,
                          !.project_found = TRUE] :
         m \in {"deterministic", "agentic"}, t \in IngestTexts, o \in ChunkOptions}
\* POST /projects/{id}/documents, automatic workflow
AutomaticRequests ==
    {[NoIngRequest EXCEPT !.op = "ingest", !.workflow = "automatic", !.mode = m,
                          !.text = t, !.options = o, !.headers = h,
                          !.project_found = TRUE] :
         m \in {"deterministic", "agentic"}, t \in IngestTexts, o \in ChunkOptions,
         h \in {"llm", "disabled"}}
\* POST /projects/{id}/documents, manual workflow
ManualRequests ==
    {[NoIngRequest EXCEPT !.op = "ingest", !.workflow = "manual", !.text = t,
                          !.approved = a, !.project_found = p] :
         t \in {NoText, <<WordChar>>}, a \in ApprovedLists, p \in BOOLEAN}
IngRequests == ChunkRequests \cup AutomaticRequests \cup ManualRequests

NoDocument == 0
NoResult == [status |-> "none", at |-> "none", chunks |-> <<>>, document |-> NoDocument]

IngInit ==
    /\ ing_pc = "idle"
    /\ ing_req = NoIngRequest
    /\ ing_chunks = <<>>
    /\ ing_result = NoResult
    /\ ing_calls = 0
    /\ sql_pending = NoDocument
    /\ sql_documents = {}
    /\ qdrant_points = {}
    /\ collection_exists = FALSE

\* a mutant of the session: closing it commits what was flushed
SessionCloseCommits(documents, pending) ==
    IF pending = NoDocument THEN documents
    ELSE documents \cup {[id |-> pending, chunks |-> <<>>]}

\* the request's database session is closed without a commit: what it has
\* flushed is rolled back
SessionClose(documents, pending) == documents

\* an exception leaves the handler
IngRaise(error) ==
    /\ ing_result' = [NoResult EXCEPT !.status = error, !.at = ing_pc]
    /\ ing_pc' = "idle"
    /\ ing_req' = NoIngRequest
    /\ ing_chunks' = <<>>
    /\ sql_documents' = SessionClose(sql_documents, sql_pending)
    /\ sql_pending' = NoDocument

\* the handler goes on to its next await
IngGoto(npc, chunks) ==
    /\ ing_pc' = npc
    /\ ing_chunks' = chunks
    /\ UNCHANGED <<ing_req, ing_result, sql_pending, sql_documents>>

\* chunk_text returns its response
ChunkTextReturn(chunks) ==
    /\ ing_result' = [NoResult EXCEPT !.status = "ok", !.chunks = chunks]
    /\ ing_pc' = "idle"
    /\ ing_req' = NoIngRequest
    /\ ing_chunks' = <<>>
    /\ UNCHANGED <<sql_pending, sql_documents>>

\* a pipeline endpoint receives a request: chunk_text, or ingest_document up
\* to its first await; _chunk_runtime runs the deterministic chunker at once
\* and awaits the agentic chunker
IngStart(r) ==
    /\ ing_pc = "idle"
    /\ ing_calls < MaxIngests
    /\ ing_calls' = ing_calls + 1
    /\ IF r.op = "ingest" /\ ~r.project_found
       THEN IngRaise("ResourceNotFoundError")
       ELSE IF r.workflow = "manual"
       THEN IF r.text = NoText \/ r.approved = <<>>
            THEN IngRaise("ValidationDomainError")
            ELSE /\ ing_pc' = "embed"
                 /\ ing_req' = r
                 /\ ing_chunks' = r.approved
                 /\ ing_result' = NoResult
                 /\ UNCHANGED <<sql_pending, sql_documents>>
       ELSE IF r.mode = "agentic"
       THEN /\ ing_pc' = "agentic"
            /\ ing_req' = r
            /\ ing_chunks' = <<>>
            /\ ing_result' = NoResult
            /\ UNCHANGED <<sql_pending, sql_documents>>
       ELSE IF r.op = "chunk"
       THEN ChunkTextReturn(DeterministicChunks(r.text, r.options))
       ELSE /\ ing_pc' = "contextualize"
            /\ ing_req' = r
            /\ ing_chunks' = DeterministicChunks(r.text, r.options)
            /\ ing_result' = NoResult
            /\ UNCHANGED <<sql_pending, sql_documents>>
    /\ UNCHANGED <<qdrant_points, collection_exists, outsidePipe>>

\* _chunk_runtime: the agentic chunker returns validated chunks
AgenticOk(raw_chunks) ==
    /\ ing_pc = "agentic"
    /\ AgenticValid(raw_chunks)
    /\ IF ing_req.op = "chunk"
       THEN ChunkTextReturn(AgenticChunks(ing_req.text, raw_chunks))
       ELSE IngGoto("contextualize", AgenticChunks(ing_req.text, raw_chunks))
    /\ UNCHANGED <<ing_calls, qdrant_points, collection_exists, outsidePipe>>

\* _chunk_runtime: the agentic chunker raises (the completion is not valid,
\* or the upstream call failed); nothing catches the exception
AgenticFail(raw_chunks, error) ==
    /\ ing_pc = "agentic"
    /\ error = "ValidationDomainError" => ~AgenticValid(raw_chunks)
    /\ IngRaise(error)
    /\ UNCHANGED <<ing_calls, qdrant_points, collection_exists, outsidePipe>>

\* _automatic_contextualization, then the check that there are chunks
Contextualize ==
    /\ ing_pc = "contextualize"
    /\ IF ing_chunks = <<>>
       THEN IngRaise("ValidationDomainError")
       ELSE IngGoto("embed", ing_chunks)
    /\ UNCHANGED <<ing_calls, qdrant_points, collection_exists, outsidePipe>>

\* the header generator raises on a chunk
ContextualizeFail ==
    /\ ing_pc = "contextualize"
    /\ ing_req.headers = "llm" /\ ing_chunks # <<>>
    /\ IngRaise("ExternalServiceError")
    /\ UNCHANGED <<ing_calls, qdrant_points, collection_exists, outsidePipe>>

\* embed_texts returns the vectors
EmbedOk ==
    /\ ing_pc = "embed"
    /\ IngGoto("ensure_collection", ing_chunks)
    /\ UNCHANGED <<ing_calls, qdrant_points, collection_exists, outsidePipe>>

\* ensure_collection returns; the document row is added and flushed
EnsureCollectionOk ==
    /\ ing_pc = "ensure_collection"
    /\ collection_exists' = TRUE
    /\ sql_pending' = ing_calls
    /\ ing_pc' = "upsert"
    /\ UNCHANGED <<ing_req, ing_chunks, ing_result, ing_calls, sql_documents,
                   qdrant_points, outsidePipe>>

\* upsert_chunks returns: one point per chunk, chunk_id document:chunk_index
UpsertOk ==
    /\ ing_pc = "upsert"
    /\ qdrant_points' = qdrant_points \cup
           {<<sql_pending, ing_chunks[k].chunk_index>> : k \in 1..Len(ing_chunks)}
    /\ IngGoto("commit", ing_chunks)
    /\ UNCHANGED <<ing_calls, collection_exists, outsidePipe>>

\* embed_texts, ensure_collection or upsert_chunks raises
IndexingFail ==
    /\ ing_pc \in {"embed", "ensure_collection", "upsert"}
    /\ IngRaise("ExternalServiceError")
    /\ UNCHANGED <<ing_calls, qdrant_points, collection_exists, outsidePipe>>

\* the chunk rows are added and the session is committed
Commit ==
    /\ ing_pc = "commit"
    /\ sql_documents' = sql_documents \cup {[id |-> sql_pending, chunks |-> ing_chunks]}
    /\ sql_pending' = NoDocument
    /\ ing_result' = [NoResult EXCEPT !.status = "ok", !.document = sql_pending]
    /\ ing_pc' = "idle"
    /\ ing_req' = NoIngRequest
    /\ ing_chunks' = <<>>
    /\ UNCHANGED <<ing_calls, qdrant_points, collection_exists, outsidePipe>>

\* the commit raises
CommitFail ==
    /\ ing_pc = "commit"
    /\ IngRaise("DatabaseError")
    /\ UNCHANGED <<ing_calls, qdrant_points, collection_exists, outsidePipe>>

IngStep ==
    \/ \E r \in IngRequests : IngStart(r)
    \/ \E raw \in AgenticCompletions : AgenticOk(raw)
    \/ \E raw \in AgenticCompletions, e \in AgenticErrors : AgenticFail(raw, e)
    \/ Contextualize
    \/ ContextualizeFail
    \/ EmbedOk
    \/ EnsureCollectionOk
    \/ UpsertOk
    \/ IndexingFail
    \/ Commit
    \/ CommitFail

\* ---------------------------------------------------------------------------
\* Part IX. Retrieval: the hybrid ranker, the reranker service and the
\* reranked retrieval of the orchestrator
\* ---------------------------------------------------------------------------
\* a > b for two tuples of numbers of one length, as Python compares tuples
RECURSIVE TupleGreater(_, _)
TupleGreater(a, b) ==
    IF a = <<>> THEN FALSE
    ELSE IF Head(a) # Head(b) THEN Head(a) > Head(b)
    ELSE TupleGreater(Tail(a), Tail(b))

\* list.sort(key=..., reverse=True) on records with a field `key`: descending,
\* equal keys stay in their order
RECURSIVE InsertDescending(_, _)
InsertDescending(x, sorted) ==
    IF sorted = <<>> THEN <<x>>
    ELSE IF TupleGreater(x.key, Head(sorted).key) THEN <<x>> \o sorted
    ELSE <<Head(sorted)>> \o InsertDescending(x, Tail(sorted))
RECURSIVE SortDescending(_)
SortDescending(items) ==
    IF items = <<>> THEN <<>>
    ELSE InsertDescending(items[Len(items)],
                          SortDescending(SubSeq(items, 1, Len(items) - 1)))

\* ranked[:top_k]
Take(items, n) == SubSeq(items, 1, Min(Max(n, 0), Len(items)))

\* ---- HybridRanker.fuse
ChunkKeys == <<"d1:0", "d1:1", "d2:0">>
KeySet(keys) == {keys[k] : k \in 1..Len(keys)}
\* the orders in which a Python set of these keys can be iterated
KeyOrders(keys) ==
    {order \in [1..Cardinality(keys) -> keys] :
         \A i, j \in 1..Cardinality(keys) : i # j => order[i] # order[j]}
MaxOf(values) == IF values = {} THEN 0 ELSE CHOOSE v \in values : \A u \in values : v >= u
\* {key: max(0.0, value) for key, value in scores.items() if key in candidate_map}
Positive(scores, candidates) ==
    [k \in DOMAIN scores \cap KeySet(candidates) |-> Max(0, scores[k])]
Raw(positive, key) == IF key \in DOMAIN positive THEN positive[key] ELSE 0
Range(f) == {f[x] : x \in DOMAIN f}
\* one fused row; dense_weight is in tenths, and hybrid_score is the score of
\* the code times 10 * max_dense * max_sparse (each maximum taken as 1 when it
\* is 0), which is one positive factor for all rows of a call
RankedChunkCandidate(key, dense_positive, sparse_positive, dense_weight) ==
    LET max_dense == MaxOf(Range(dense_positive))
        max_sparse == MaxOf(Range(sparse_positive))
        dense_raw == Raw(dense_positive, key)
        sparse_raw == Raw(sparse_positive, key)
        dense_part == IF max_dense > 0
                      THEN dense_weight * dense_raw * Max(max_sparse, 1) ELSE 0
        sparse_part == IF max_sparse > 0
                       THEN (10 - dense_weight) * sparse_raw * Max(max_dense, 1) ELSE 0
    IN  [chunk_key |-> key, dense_score |-> dense_raw, sparse_score |-> sparse_raw,
         hybrid_score |-> dense_part + sparse_part]
SortKeyHybridOnly(row) == <<row.hybrid_score>>
\* key=lambda item: (item.hybrid_score, item.dense_score, item.sparse_score)
SortKey(row) == <<row.hybrid_score, row.dense_score, row.sparse_score>>
Unkeyed(items) == [k \in 1..Len(items) |-> items[k].row]
\* fuse, with the set of keys iterated in the order `order`
\* fuse without ranked.sort: the rows in the order of the key set
fuse_unsorted(candidates, dense_scores, sparse_scores, top_k, dense_weight, order) ==
    IF candidates = <<>> THEN <<>>
    ELSE Take([k \in 1..Len(order) |->
                   RankedChunkCandidate(order[k], Positive(dense_scores, candidates),
                                        Positive(sparse_scores, candidates), dense_weight)],
              top_k)
\* HybridRanker.fuse
fuse(candidates, dense_scores, sparse_scores, top_k, dense_weight, order) ==
    IF candidates = <<>> THEN <<>>
    ELSE LET dense_positive == Positive(dense_scores, candidates)
             sparse_positive == Positive(sparse_scores, candidates)
             ranked == [k \in 1..Len(order) |->
                           LET row == RankedChunkCandidate(order[k], dense_positive,
                                                           sparse_positive, dense_weight)
                           IN  [key |-> SortKey(row), row |-> row]]
         IN  Take(Unkeyed(SortDescending(ranked)), top_k)
FuseKeys(candidates, dense_scores, sparse_scores) ==
    DOMAIN Positive(dense_scores, candidates) \cup DOMAIN Positive(sparse_scores, candidates)
\* hybrid_search: rank = index + 1
WithRanks(ranked) ==
    [k \in 1..Len(ranked) |->
         [chunk_key |-> ranked[k].chunk_key, rank |-> k,
          dense_score |-> ranked[k].dense_score, sparse_score |-> ranked[k].sparse_score,
          hybrid_score |-> ranked[k].hybrid_score]]

DenseValues == {-1, 1, 2}
SparseValues == {1, 2}
\* the dicts of scores over some of the keys
ScoreDicts(keys, values) == UNION {[scored -> values] : scored \in SUBSET keys}
DenseWeights == {0, 5, 10}
TopKs == 1..3
NoRetrieval ==
    [ran |-> FALSE, candidates |-> <<>>, dense_scores |-> <<>>, sparse_scores |-> <<>>,
     top_k |-> 0, dense_weight |-> 0, chunks |-> <<>>, repeated |-> FALSE,
     again |-> <<>>]

\* hybrid_search of one project: the candidates of the project, the dense hits
\* and the BM25 scores are the inputs
HybridSearch(candidates, dense_scores, sparse_scores, top_k, dense_weight, order) ==
    /\ ~hybrid_result.ran
    /\ hybrid_result' =
           [ran |-> TRUE, candidates |-> candidates, dense_scores |-> dense_scores,
            sparse_scores |-> sparse_scores, top_k |-> top_k, dense_weight |-> dense_weight,
            chunks |-> WithRanks(fuse(candidates, dense_scores, sparse_scores, top_k,
                                      dense_weight, order)),
            repeated |-> FALSE, again |-> <<>>]
    /\ UNCHANGED <<reranked_result, rerankerVars, outsideRank>>

\* the same request once more; the process may have been restarted in between,
\* so the set of keys is iterated in an order of its own
HybridSearchAgain(order) ==
    /\ hybrid_result.ran /\ ~hybrid_result.repeated
    /\ hybrid_result' =
           [hybrid_result EXCEPT
                !.repeated = TRUE,
                !.again = WithRanks(fuse(hybrid_result.candidates, hybrid_result.dense_scores,
                                         hybrid_result.sparse_scores, hybrid_result.top_k,
                                         hybrid_result.dense_weight, order))]
    /\ UNCHANGED <<reranked_result, rerankerVars, outsideRank>>

HybridStep(in) ==
    \/ /\ hybrid_result.ran /\ ~hybrid_result.repeated
       /\ \E order \in KeyOrders(FuseKeys(hybrid_result.candidates,
                                           hybrid_result.dense_scores,
                                           hybrid_result.sparse_scores)) :
              HybridSearchAgain(order)
    \/ /\ ~hybrid_result.ran
       /\ \E n \in in.candidate_counts :
         LET candidates == SubSeq(ChunkKeys, 1, n)
         IN \E dense_scores \in ScoreDicts(KeySet(candidates), in.dense_values),
               sparse_scores \in ScoreDicts(KeySet(candidates), in.sparse_values),
               top_k \in in.top_ks, dense_weight \in in.dense_weights :
                \E order \in KeyOrders(FuseKeys(candidates, dense_scores, sparse_scores)) :
                    HybridSearch(candidates, dense_scores, sparse_scores, top_k,
                                 dense_weight, order)


\* ---- RerankedRetrievalService.retrieve
SourceId(index) == <<"S", index>>
RerankedSourceChunk(candidate, rerank_score) ==
    [chunk_key |-> candidate.chunk_key, source_id |-> <<>>, rank |-> 0,
     hybrid_score |-> candidate.hybrid_score, original_rank |-> candidate.rank,
     rerank_score |-> rerank_score]
\* the loop over the rows of the reranker
RECURSIVE ConsumeRows(_, _, _, _, _)
ConsumeRows(rerank_rows, hybrid_candidates, top_n, consumed_indexes, final_sources) ==
    IF rerank_rows = <<>> THEN final_sources
    ELSE LET candidate_index == Head(rerank_rows).index
             rerank_score == Head(rerank_rows).relevance_score
         IN  IF \/ candidate_index < 0 \/ candidate_index >= Len(hybrid_candidates)
                \/ candidate_index \in consumed_indexes
             THEN ConsumeRows(Tail(rerank_rows), hybrid_candidates, top_n,
                              consumed_indexes, final_sources)
             ELSE LET appended ==
                          Append(final_sources,
                                 RerankedSourceChunk(hybrid_candidates[candidate_index + 1],
                                                     rerank_score))
                  IN  IF Len(appended) >= top_n THEN appended
                      ELSE ConsumeRows(Tail(rerank_rows), hybrid_candidates, top_n,
                                       consumed_indexes \cup {candidate_index}, appended)
HybridOrderSources(hybrid_candidates, top_n) ==
    [k \in 1..Min(top_n, Len(hybrid_candidates)) |->
         RerankedSourceChunk(hybrid_candidates[k], 0)]
RenumberNone(final_sources) == final_sources
Renumber(final_sources) ==
    [k \in 1..Len(final_sources) |->
         [final_sources[k] EXCEPT !.rank = k, !.source_id = SourceId(k)]]
FinalSources(hybrid_candidates, rerank_rows, top_k) ==
    IF hybrid_candidates = <<>> THEN <<>>
    ELSE LET top_n == Min(top_k, Len(hybrid_candidates))
             final_sources == ConsumeRows(rerank_rows, hybrid_candidates, top_n, {}, <<>>)
         IN  Renumber(IF final_sources = <<>>
                      THEN HybridOrderSources(hybrid_candidates, top_n)
                      ELSE final_sources)

RowIndexes == -1..2
RowScores == {1, 2}
RerankRows ==
    UNION {[1..n -> [index : RowIndexes, relevance_score : RowScores]] : n \in 0..MaxRows}
RerankCandidateCounts == {1, 3}
NoReranked ==
    [ran |-> FALSE, top_k |-> 0, hybrid_candidates |-> <<>>, rerank_rows |-> <<>>,
     sources |-> <<>>]

\* retrieve: the hybrid retrieval of max(top_k, rerank_candidate_count)
\* candidates, the rows the inference service answers, the final sources
RerankedRetrieve(candidates, dense_scores, sparse_scores, top_k, rerank_candidate_count, dense_weight, order, rerank_rows) ==
    LET candidate_count == Max(top_k, rerank_candidate_count)
        hybrid_candidates == WithRanks(fuse(candidates, dense_scores, sparse_scores,
                                            candidate_count, dense_weight, order))
    IN  /\ ~reranked_result.ran
        /\ reranked_result' =
               [ran |-> TRUE, top_k |-> top_k, hybrid_candidates |-> hybrid_candidates,
                rerank_rows |-> IF hybrid_candidates = <<>> THEN <<>> ELSE rerank_rows,
                sources |-> FinalSources(hybrid_candidates, rerank_rows, top_k)]
        /\ UNCHANGED <<hybrid_result, rerankerVars, outsideRank>>

RerankedStep(in) ==
    /\ ~reranked_result.ran
    /\ \E n \in in.candidate_counts :
        LET candidates == SubSeq(ChunkKeys, 1, n)
        IN  \E dense_scores \in ScoreDicts(KeySet(candidates), in.dense_values),
               sparse_scores \in ScoreDicts(KeySet(candidates), in.sparse_values),
               top_k \in in.top_ks, dense_weight \in in.dense_weights,
               rerank_candidate_count \in RerankCandidateCounts, rerank_rows \in RerankRows :
                \E order \in KeyOrders(FuseKeys(candidates, dense_scores, sparse_scores)) :
                    RerankedRetrieve(candidates, dense_scores, sparse_scores, top_k,
                                     rerank_candidate_count, dense_weight, order, rerank_rows)


\* ---- the reranker backend: RerankService over CrossEncoderReranker
RerankCallers == {1, 2}
DefaultModel == "bge-reranker-v2-m3"
CanonicalModel == "BAAI/bge-reranker-v2-m3"
OtherModel == "cross-encoder/other"
RerankModelNames == {DefaultModel, OtherModel}
\* MODEL_ALIASES.get(candidate, candidate)
resolve_model_name(model) == IF model = DefaultModel THEN CanonicalModel ELSE model
ResolvedModels == {resolve_model_name(m) : m \in RerankModelNames}
NoModel == "none"
NoTopN == 0
\* `encoder = None`: a call that refers to no model instance
NoEncoder == 0
DocumentTexts == {<<Blank>>, <<Blank, WordChar>>}
DocumentLists == UNION {[1..n -> DocumentTexts] : n \in 1..MaxDocuments}
Queries == {<<WordChar>>, <<Blank>>}
TopNs == {NoTopN, 1, 2, 4}
RerankRequests ==
    [model : RerankModelNames, query : Queries, documents : DocumentLists, top_n : TopNs]
NoRerankRequest == [model |-> NoModel, query |-> <<>>, documents |-> <<>>, top_n |-> NoTopN]
NoRerankResult == [status |-> "none", results |-> <<>>]
ScoreValues == {1, 2}

\* [item.strip() for item in documents if item.strip()], with every item left
\* in place
NormalizeKeepingBlanks(documents) == [k \in 1..Len(documents) |-> Strip(documents[k])]
NormalizeDocuments(documents) ==
    SelectSeq(NormalizeKeepingBlanks(documents), LAMBDA item : item # <<>>)
ClampTopN(top_n, documents) ==
    IF top_n # NoTopN /\ top_n > Len(documents) THEN Len(documents) ELSE top_n
\* sorted(range(len(scores)), key=lambda idx: scores[idx], reverse=True),
\* indexes counted from 0
RankedIndices(scores) ==
    LET keyed == [k \in 1..Len(scores) |-> [key |-> <<scores[k]>>, row |-> k - 1]]
    IN  Unkeyed(SortDescending(keyed))
Limit(top_n, count) == IF top_n = NoTopN THEN count ELSE Min(Max(top_n, 1), count)
RerankResults(scores, top_n) ==
    LET ranked_indices == Take(RankedIndices(scores), Limit(top_n, Len(scores)))
    IN  [k \in 1..Len(ranked_indices) |->
             [index |-> ranked_indices[k], relevance_score |-> scores[ranked_indices[k] + 1]]]

RerankerInit(flags) ==
    /\ unload_after_request \in flags
    /\ model_cache = {}
    /\ cache_lock = 0
    /\ loads = [m \in ResolvedModels |-> 0]
    /\ rr_calls = 0
    /\ rr_pc = [t \in RerankCallers |-> "idle"]
    /\ rr_req = [t \in RerankCallers |-> NoRerankRequest]
    /\ rr_scores = [t \in RerankCallers |-> <<>>]
    /\ rr_result = [t \in RerankCallers |-> NoRerankResult]
    /\ rr_encoder = [t \in RerankCallers |-> NoEncoder]

ResolvedModel(t) == resolve_model_name(rr_req[t].model)
\* the instance that the cache holds for a model: the one the latest call of
\* the loader returned, since the loader runs only for a model that is missing
CachedInstance(model) == loads[model]
RrEncoder(t, instance) == rr_encoder' = [rr_encoder EXCEPT ![t] = instance]
RrGoto(t, npc) == rr_pc' = [rr_pc EXCEPT ![t] = npc]
RrResult(t, status, results) ==
    rr_result' = [rr_result EXCEPT ![t] = [status |-> status, results |-> results]]
RrShared == <<unload_after_request, model_cache, cache_lock, loads>>

\* RerankService.rerank up to the call of the tool: the validation of the
\* query and of the documents
RerankStart(t, request) ==
    /\ rr_pc[t] = "idle" /\ rr_calls < MaxReranks
    /\ rr_calls' = rr_calls + 1
    /\ rr_req' = [rr_req EXCEPT ![t] = request]
    /\ rr_scores' = [rr_scores EXCEPT ![t] = <<>>]
    /\ IF Strip(request.query) = <<>> \/ NormalizeDocuments(request.documents) = <<>>
       THEN RrGoto(t, "idle") /\ RrResult(t, "ValidationDomainError", <<>>)
       ELSE RrGoto(t, "get_model") /\ RrResult(t, "none", <<>>)
    /\ UNCHANGED <<RrShared, rr_encoder, hybrid_result, reranked_result, outsideRank>>

\* _get_or_load_model: the look at the cache without the lock
CacheLookup(t) ==
    /\ rr_pc[t] = "get_model"
    /\ RrGoto(t, IF ResolvedModel(t) \in model_cache THEN "predict" ELSE "wait_lock")
    /\ RrEncoder(t, IF ResolvedModel(t) \in model_cache
                    THEN CachedInstance(ResolvedModel(t)) ELSE NoEncoder)
    /\ UNCHANGED <<RrShared, rr_calls, rr_req, rr_scores, rr_result, hybrid_result,
                   reranked_result, outsideRank>>

\* a lock that lets a caller in while another one holds it
LockAcquireUnguarded(t) ==
    /\ rr_pc[t] \in {"wait_lock", "finally"}
    /\ rr_pc[t] = "finally" => unload_after_request
    /\ cache_lock' = t
    /\ RrGoto(t, IF rr_pc[t] = "wait_lock" THEN "locked" ELSE "unloading")
    /\ UNCHANGED <<unload_after_request, model_cache, loads, rr_calls, rr_req, rr_scores,
                   rr_result, rr_encoder, hybrid_result, reranked_result, outsideRank>>
\* with self._cache_lock: entered
LockAcquire(t) ==
    /\ rr_pc[t] \in {"wait_lock", "finally"} /\ cache_lock = 0
    /\ rr_pc[t] = "finally" => unload_after_request
    /\ cache_lock' = t
    /\ RrGoto(t, IF rr_pc[t] = "wait_lock" THEN "locked" ELSE "unloading")
    /\ UNCHANGED <<unload_after_request, model_cache, loads, rr_calls, rr_req, rr_scores,
                   rr_result, rr_encoder, hybrid_result, reranked_result, outsideRank>>

\* cached is None, at the second look
NeedsLoad(t) == ResolvedModel(t) \notin model_cache
\* the body of the with block: the second look at the cache, then the loader,
\* which returns the model (load_ok) or raises
LoadModel(t, load_ok) ==
    /\ rr_pc[t] = "locked"
    /\ cache_lock' = 0
    /\ IF ~NeedsLoad(t)
       THEN /\ RrGoto(t, "predict") /\ RrEncoder(t, CachedInstance(ResolvedModel(t)))
            /\ UNCHANGED <<model_cache, loads, rr_result>>
       ELSE /\ loads' = [loads EXCEPT ![ResolvedModel(t)] = @ + 1]
            /\ IF load_ok
               THEN /\ model_cache' = model_cache \cup {ResolvedModel(t)}
                    /\ RrEncoder(t, loads'[ResolvedModel(t)])
                    /\ RrGoto(t, "predict") /\ UNCHANGED rr_result
               ELSE /\ RrGoto(t, "finally") /\ RrResult(t, "ExternalServiceError", <<>>)
                    /\ UNCHANGED <<model_cache, rr_encoder>>
    /\ UNCHANGED <<unload_after_request, rr_calls, rr_req, rr_scores, hybrid_result,
                   reranked_result, outsideRank>>

\* encoder.predict and the rows: one score for each document that was passed,
\* or a payload of another size; then `encoder = None` of the finally block
Predict(t, scores) ==
    LET documents == NormalizeDocuments(rr_req[t].documents)
        top_n == ClampTopN(rr_req[t].top_n, documents)
    IN  /\ rr_pc[t] = "predict"
        /\ rr_scores' = [rr_scores EXCEPT ![t] = scores]
        /\ IF Len(scores) = Len(documents)
           THEN RrResult(t, "ok", RerankResults(scores, top_n))
           ELSE RrResult(t, "ExternalServiceError", <<>>)
        /\ RrGoto(t, "finally")
        /\ RrEncoder(t, IF unload_after_request THEN NoEncoder ELSE rr_encoder[t])
        /\ UNCHANGED <<RrShared, rr_calls, rr_req, hybrid_result, reranked_result,
                       outsideRank>>

CacheAfterCall(cache, model) == cache
\* self._model_cache.pop(resolved_model, None)
CacheAfterUnload(cache, model) == cache \ {model}
\* finally: unload_model, under the lock
UnloadModel(t) ==
    /\ rr_pc[t] = "unloading"
    /\ model_cache' = CacheAfterUnload(model_cache, ResolvedModel(t))
    /\ cache_lock' = 0
    /\ RrGoto(t, "idle")
    /\ UNCHANGED <<unload_after_request, loads, rr_calls, rr_req, rr_scores, rr_result,
                   rr_encoder, hybrid_result, reranked_result, outsideRank>>

\* finally: nothing to do when models stay loaded; the call returns and its
\* reference to the model ends
RerankReturn(t) ==
    /\ rr_pc[t] = "finally" /\ ~unload_after_request
    /\ RrGoto(t, "idle")
    /\ RrEncoder(t, NoEncoder)
    /\ UNCHANGED <<RrShared, rr_calls, rr_req, rr_scores, rr_result, hybrid_result,
                   reranked_result, outsideRank>>

RerankerStep(in) ==
    \E t \in in.callers :
        \/ \E request \in in.requests : RerankStart(t, request)
        \/ CacheLookup(t)
        \/ LockAcquire(t)
        \/ \E load_ok \in BOOLEAN : LoadModel(t, load_ok)
        \/ \E n \in in.score_counts : \E scores \in [1..n -> ScoreValues] : Predict(t, scores)
        \/ UnloadModel(t)
        \/ RerankReturn(t)

RankInit == hybrid_result = NoRetrieval /\ reranked_result = NoReranked

HybridInputs ==
    [candidate_counts |-> 0..3, dense_values |-> DenseValues,
     sparse_values |-> SparseValues, top_ks |-> TopKs, dense_weights |-> DenseWeights]
RerankedInputs ==
    [candidate_counts |-> {0, 2}, dense_values |-> {1, 2}, sparse_values |-> {},
     top_ks |-> {1, 2}, dense_weights |-> {10}]
\* one signal at a time: scores of either sign, weight 1 or 0
FuseInputs ==
    [candidate_counts |-> {2, 3}, dense_values |-> {-1, 0, 2},
     sparse_values |-> {-1, 0, 2}, top_ks |-> {2, 3}, dense_weights |-> {0, 10}]
\* one caller, every request
RerankInputs ==
    [callers |-> {1},
     requests |-> [model : {DefaultModel}, query : Queries, documents : DocumentLists,
                   top_n : TopNs],
     score_counts |-> 1..MaxDocuments]
\* two callers at a time, one document
CacheInputs ==
    [callers |-> RerankCallers,
     requests |-> [model : RerankModelNames, query : Queries,
                   documents : {<<<<WordChar>>>>}, top_n : {NoTopN}],
     score_counts |-> {1}]

\* ---------------------------------------------------------------------------
\* Part XI. Chat responses, the session store, prompts, text normalizing
\* ---------------------------------------------------------------------------
\* ---- CitationParser.extract and _build_response
\* the S<k> of a marker, as a source id
TagId(c) == SourceId(CHOOSE k \in 1..Len(CitationTags) : CitationTags[k] = c)
\* the loop over findall(answer)
RECURSIVE ExtractFrom(_, _, _)
ExtractFrom(answer_text, available_source_ids, ordered) ==
    IF answer_text = <<>> THEN ordered
    ELSE IF ~IsTag(Head(answer_text)) THEN ExtractFrom(Tail(answer_text), available_source_ids, ordered)
    ELSE LET match == TagId(Head(answer_text))
         IN  IF (\E k \in 1..Len(ordered) : ordered[k] = match)
                    \/ match \notin available_source_ids
             THEN ExtractFrom(Tail(answer_text), available_source_ids, ordered)
             ELSE ExtractFrom(Tail(answer_text), available_source_ids, Append(ordered, match))
extract(answer_text, available_source_ids) == ExtractFrom(answer_text, available_source_ids, <<>>)

\* _build_response of both chat services, from the answer of the output state
BuildResponse(output_answer, source_count) ==
    LET answer_raw == Strip(output_answer)
        available_citations == {SourceId(k) : k \in 1..source_count}
    IN  [answer |-> StripInlineSourceTags(answer_raw),
         citations_used |-> extract(answer_raw, available_citations)]

\* the answer that reaches _build_response: the completion of the graph for
\* the batch calls and for the hybrid stream routes, which make the batch
\* call; the joined deltas for the reranked stateless stream; the joined
\* deltas without their markers for the reranked session stream
OutputAnswer(variant, mode, transport, answer_raw) ==
    IF variant = "reranked" /\ transport = "stream" /\ mode = "session"
    THEN StripInlineSourceTags(answer_raw)
    ELSE answer_raw

AnswerChar == {WordChar, Blank} \cup {CitationTags[k] : k \in 1..Len(CitationTags)}
RawAnswers == UNION {[1..n -> AnswerChar] : n \in 0..MaxAnswerLen}
SourceCounts == 0..2
NoResponse ==
    [built |-> FALSE, variant |-> "none", mode |-> "none", transport |-> "none",
     answer_raw |-> <<>>, source_count |-> 0, answer |-> <<>>, citations_used |-> <<>>]

\* one chat call that ends with a response: the model answered answer_raw
\* over source_count retrieved sources
ChatResponse(variant, mode, transport, answer_raw, source_count) ==
    LET response == BuildResponse(OutputAnswer(variant, mode, transport, answer_raw),
                                  source_count)
    IN  /\ chat_response' =
               [built |-> TRUE, variant |-> variant, mode |-> mode, transport |-> transport,
                answer_raw |-> answer_raw, source_count |-> source_count,
                answer |-> response.answer, citations_used |-> response.citations_used]
        /\ UNCHANGED <<storeVars, textVars, outsideExtra>>

ResponseStep ==
    /\ ~chat_response.built
    /\ \E variant \in Variants, mode \in Modes, transport \in Transports,
          answer_raw \in RawAnswers, source_count \in SourceCounts :
           ChatResponse(variant, mode, transport, answer_raw, source_count)

\* ---- RagRerankedSessionStoreService, one session, one call at a time
DefaultTitle == <<"Untitled Session">>
NoTitle == <<"None">>
TITLE_FROM_MESSAGE_CHARS == 64
TITLE_CHARS == 200
\* _title_is_default
TitleAlwaysDefault(title) == TRUE
TitleIsDefault(title) == title = NoTitle \/ Strip(title) = <<>> \/ Strip(title) = DefaultTitle
\* str.replace("\n", " ")
ReplaceNewlines(text) == [k \in 1..Len(text) |-> IF text[k] = Newline THEN Blank ELSE text[k]]
\* the loop of _normalize_title over the messages
RECURSIVE TitleFromMessages(_)
TitleFromMessages(messages) ==
    IF messages = <<>> THEN DefaultTitle
    ELSE LET candidate == ReplaceNewlines(Strip(Head(messages).content))
         IN  IF Head(messages).role # "user" \/ candidate = <<>>
             THEN TitleFromMessages(Tail(messages))
             ELSE Take(candidate, TITLE_FROM_MESSAGE_CHARS)
\* _normalize_title
NormalizeTitle(title, messages) ==
    IF title # NoTitle /\ Strip(title) # <<>> THEN Take(Strip(title), TITLE_CHARS)
    ELSE TitleFromMessages(messages)

NoStoreRow == [exists |-> FALSE, title |-> NoTitle, messages |-> <<>>, message_count |-> 0]
\* a user message of 65 characters and a blank at each end, with a newline
LongMessage ==
    [k \in 1..(TITLE_FROM_MESSAGE_CHARS + 3) |->
         IF k = 1 \/ k = TITLE_FROM_MESSAGE_CHARS + 3 THEN Blank
         ELSE IF k = 3 THEN Newline ELSE WordChar]
StoreUserMessages == {<<Blank>>, <<Blank, WordChar>>, LongMessage}
StoreAssistantMessages == {<<Newline>>, <<WordChar>>}
StoreTitles == {NoTitle, <<Blank>>, <<Blank, WordChar>>, DefaultTitle}
StoredMessage(role, content) == [role |-> role, content |-> content, turn |-> 0]
\* the transcripts of an update request; `request.messages or []` makes no
\* transcript the empty one
NoMessages == <<>>
UpdateTranscripts ==
    {NoMessages, <<StoredMessage("user", <<Blank>>)>>,
     <<StoredMessage("assistant", <<WordChar>>), StoredMessage("user", <<WordChar, Newline>>)>>}
UpdateRequests ==
    {[fields_set |-> {}, title |-> NoTitle, messages |-> NoMessages]}
    \cup [fields_set : {{"title"}}, title : StoreTitles, messages : {NoMessages}]
    \cup [fields_set : {{"messages"}}, title : {NoTitle}, messages : UpdateTranscripts]
    \cup [fields_set : {{"title", "messages"}}, title : StoreTitles, messages : UpdateTranscripts]
NoStoreCall ==
    [op |-> "none", status |-> "none", user_message |-> <<>>, assistant_message |-> <<>>,
     before |-> NoStoreRow]
StoreCall(op, status, user_message, assistant_message) ==
    /\ store_ops < MaxStoreOps
    /\ store_ops' = store_ops + 1
    /\ store_last' = [op |-> op, status |-> status, user_message |-> user_message,
                      assistant_message |-> assistant_message, before |-> store_row]

\* create_session with the session id of the row
StoreCreateSession(title) ==
    /\ IF store_row.exists
       THEN StoreCall("create_session", "ValidationDomainError", <<>>, <<>>)
            /\ UNCHANGED store_row
       ELSE /\ StoreCall("create_session", "ok", <<>>, <<>>)
            /\ store_row' = [exists |-> TRUE, title |-> NormalizeTitle(title, <<>>),
                             messages |-> <<>>, message_count |-> 0]
    /\ UNCHANGED <<chat_response, textVars, outsideExtra>>

\* update_session: the fields of the request that were set
StoreUpdateSession(request) ==
    /\ IF ~store_row.exists
       THEN StoreCall("update_session", "ResourceNotFoundError", <<>>, <<>>)
            /\ UNCHANGED store_row
       ELSE LET messages == IF "messages" \notin request.fields_set THEN store_row.messages
                            ELSE request.messages
                derived == IF /\ "messages" \in request.fields_set
                              /\ "title" \notin request.fields_set
                              /\ TitleIsDefault(store_row.title)
                           THEN NormalizeTitle(NoTitle, messages)
                           ELSE store_row.title
                title == IF "title" \in request.fields_set
                         THEN NormalizeTitle(request.title, messages)
                         ELSE derived
            IN  /\ StoreCall("update_session", "ok", <<>>, <<>>)
                /\ store_row' = [exists |-> TRUE, title |-> title, messages |-> messages,
                                 message_count |-> Len(messages)]
    /\ UNCHANGED <<chat_response, textVars, outsideExtra>>

\* append_turn: the row is made when it is missing
StoreAppendTurn(user_message, assistant_message) ==
    LET row == IF store_row.exists THEN store_row
               ELSE [exists |-> TRUE, title |-> DefaultTitle, messages |-> <<>>,
                     message_count |-> 0]
        appended == append_turn(row, user_message, assistant_message, 0)
    IN  /\ StoreCall("append_turn", "ok", user_message, assistant_message)
        /\ store_row' = [exists |-> TRUE,
                         title |-> IF TitleIsDefault(row.title)
                                   THEN NormalizeTitle(NoTitle, appended.messages)
                                   ELSE row.title,
                         messages |-> appended.messages,
                         message_count |-> appended.message_count]
        /\ UNCHANGED <<chat_response, textVars, outsideExtra>>

StoreStep ==
    \/ \E title \in StoreTitles : StoreCreateSession(title)
    \/ \E request \in UpdateRequests : StoreUpdateSession(request)
    \/ \E user_message \in StoreUserMessages, assistant_message \in StoreAssistantMessages :
           StoreAppendTurn(user_message, assistant_message)

\* ---- DeterministicTextNormalizer.normalize
Hyphen == "-"
SHORT_LINE_CHARS == 100
REPEATED_LINE_COUNT == 3
IsWord(c) == c = WordChar
\* re.subn(r"(\w)-\n(\w)", r"\1\2", text), scanning from position i
RECURSIVE JoinHyphenated(_, _)
JoinHyphenated(text, i) ==
    IF i > Len(text) THEN <<>>
    ELSE IF /\ i + 3 <= Len(text) /\ IsWord(text[i]) /\ text[i + 1] = Hyphen
            /\ text[i + 2] = Newline /\ IsWord(text[i + 3])
         THEN <<text[i], text[i + 3]>> \o JoinHyphenated(text, i + 4)
         ELSE <<text[i]>> \o JoinHyphenated(text, i + 1)
\* re.subn(r"[^\S\n]+", " ", text): the text and the number of replacements
RECURSIVE CollapseRuns(_, _, _)
CollapseRuns(text, i, done) ==
    IF i > Len(text) THEN done
    ELSE IF text[i] # Blank
         THEN CollapseRuns(text, i + 1, [done EXCEPT !.text = Append(@, text[i])])
         ELSE IF i > 1 /\ text[i - 1] = Blank THEN CollapseRuns(text, i + 1, done)
         ELSE CollapseRuns(text, i + 1,
                           [text |-> Append(done.text, Blank), count |-> done.count + 1])
\* str.split("\n")
RECURSIVE SplitNewline(_)
SplitNewline(text) ==
    LET k == FirstNewline(text)
    IN  IF k = 0 THEN <<text>>
        ELSE <<SubSeq(text, 1, k - 1)>> \o SplitNewline(SubSeq(text, k + 1, Len(text)))
Occurrences(lines, line) == Cardinality({k \in 1..Len(lines) : lines[k] = line})
RepeatedShortLines(lines) ==
    {lines[k] : k \in {m \in 1..Len(lines) :
                           /\ lines[m] # <<>> /\ Len(lines[m]) <= SHORT_LINE_CHARS
                           /\ Occurrences(lines, lines[m]) >= REPEATED_LINE_COUNT}}
\* the loop that keeps at most max_blank_lines empty lines in a row
RECURSIVE CompactBlankLines(_, _, _)
CompactBlankLines(lines, blank_count, max_blank_lines) ==
    IF lines = <<>> THEN <<>>
    ELSE IF Head(lines) # <<>>
         THEN <<Head(lines)>> \o CompactBlankLines(Tail(lines), 0, max_blank_lines)
         ELSE IF blank_count + 1 <= max_blank_lines
              THEN <<<<>>>> \o CompactBlankLines(Tail(lines), blank_count + 1, max_blank_lines)
              ELSE CompactBlankLines(Tail(lines), blank_count + 1, max_blank_lines)
normalize(text, max_blank_lines, remove_repeated_short_lines) ==
    LET collapsed == CollapseRuns(JoinHyphenated(text, 1), 1, [text |-> <<>>, count |-> 0])
        split == SplitNewline(collapsed.text)
        lines == [k \in 1..Len(split) |-> Strip(split[k])]
        repeated == IF remove_repeated_short_lines THEN RepeatedShortLines(lines) ELSE {}
        filtered_lines == SelectSeq(lines, LAMBDA line : line \notin repeated)
    IN  [normalized_text |->
             Strip(JoinLines(CompactBlankLines(filtered_lines, 0, max_blank_lines))),
         removed_repeated_line_count |-> Len(lines) - Len(filtered_lines),
         collapsed_whitespace_count |-> collapsed.count]

NormChar == {WordChar, Blank, Newline, Hyphen}
NormTexts == UNION {[1..n -> NormChar] : n \in 0..MaxNormLen}
MaxBlankLines == {0, 1}
NoNormalization ==
    [ran |-> FALSE, again |-> FALSE, text |-> <<>>, max_blank_lines |-> 0,
     remove_repeated_short_lines |-> FALSE,
     first |-> [normalized_text |-> <<>>, removed_repeated_line_count |-> 0,
                collapsed_whitespace_count |-> 0],
     second |-> [normalized_text |-> <<>>, removed_repeated_line_count |-> 0,
                 collapsed_whitespace_count |-> 0]]

\* normalize of a text
Normalize(text, max_blank_lines, remove_repeated_short_lines) ==
    /\ ~norm_result.ran
    /\ norm_result' =
           [NoNormalization EXCEPT
                !.ran = TRUE, !.text = text, !.max_blank_lines = max_blank_lines,
                !.remove_repeated_short_lines = remove_repeated_short_lines,
                !.first = normalize(text, max_blank_lines, remove_repeated_short_lines)]
    /\ UNCHANGED <<chat_response, storeVars, chunk_result, outsideExtra>>

\* normalize of the text that the first call returned, with the same options
NormalizeAgain ==
    /\ norm_result.ran /\ ~norm_result.again
    /\ norm_result' =
           [norm_result EXCEPT
                !.again = TRUE,
                !.second = normalize(norm_result.first.normalized_text,
                                     norm_result.max_blank_lines,
                                     norm_result.remove_repeated_short_lines)]
    /\ UNCHANGED <<chat_response, storeVars, chunk_result, outsideExtra>>

NormalizeStep ==
    \/ NormalizeAgain
    \/ /\ ~norm_result.ran
       /\ \E text \in NormTexts, max_blank_lines \in MaxBlankLines,
             remove_repeated_short_lines \in BOOLEAN :
              Normalize(text, max_blank_lines, remove_repeated_short_lines)

\* ---- a run of the deterministic chunker
\* a sentence of n characters: words and the period that ends it
Sentence(n) == [k \in 1..n |-> IF k = n THEN Period ELSE WordChar]
SentenceLengths == {99, 300, 500}
SentenceSeparators == {<<Blank>>, ParagraphBreak}
\* the texts of n sentences, each followed by a separator but the last
RECURSIVE SentenceTexts(_)
SentenceTexts(n) ==
    IF n = 1 THEN {Sentence(len) : len \in SentenceLengths}
    ELSE {Sentence(len) \o sep \o rest :
              len \in SentenceLengths, sep \in SentenceSeparators,
              rest \in SentenceTexts(n - 1)}
ChunkTexts == UNION {SentenceTexts(n) : n \in 1..MaxSentences}
\* options within the ranges of the request model: the smallest of each, the
\* defaults, and a minimum above the maximum
ChunkRequestOptions ==
    {[max_chunk_chars |-> 500, min_chunk_chars |-> 100, overlap_chars |-> 0],
     [max_chunk_chars |-> 1500, min_chunk_chars |-> 350, overlap_chars |-> 120],
     [max_chunk_chars |-> 500, min_chunk_chars |-> 600, overlap_chars |-> 1000]}
NoChunking ==
    [ran |-> FALSE, text |-> <<>>,
     options |-> [max_chunk_chars |-> 0, min_chunk_chars |-> 0, overlap_chars |-> 0],
     chunks |-> <<>>]

\* DeterministicChunker.chunk of a text
Chunk(text, options) ==
    /\ ~chunk_result.ran
    /\ chunk_result' = [ran |-> TRUE, text |-> text, options |-> options,
                        chunks |-> DeterministicChunks(text, options)]
    /\ UNCHANGED <<chat_response, storeVars, norm_result, outsideExtra>>

ChunkStep ==
    /\ ~chunk_result.ran
    /\ \E text \in ChunkTexts, options \in ChunkRequestOptions : Chunk(text, options)

ExtraInit ==
    /\ chat_response = NoResponse
    /\ norm_result = NoNormalization
    /\ chunk_result = NoChunking
    /\ store_row = NoStoreRow /\ store_last = NoStoreCall /\ store_ops = 0

\* ---- the deletion of a session
TurnsOf(messages) == {messages[k].turn : k \in 1..Len(messages)}
NoDeletion == [turns |-> {}, row_turns |-> {}, calls |-> 0]
\* RagRerankedSessionStoreService.delete_session of a session that has a row:
\* the row is deleted, the checkpoint thread of the session is not touched.
\* `deletion` records the turns that were stored, in the row or in the thread,
\* those of the row, and the number of chat calls that had started.  No append_turn is between
\* its db.get and its commit.
delete_session(s) ==
    /\ session_rows[s].exists
    /\ \A w \in Workers : pc[w] \notin {"commit", "graph_commit"}
    /\ session_rows' = [session_rows EXCEPT ![s] = NoRow]
    /\ deletion' = [deletion EXCEPT ![s] =
           [turns |-> TurnsOf(session_rows[s].messages)
                          \cup TurnsOf(checkpoint[<<"reranked", s>>]),
            row_turns |-> TurnsOf(session_rows[s].messages),
            calls |-> calls]]
    /\ UNCHANGED <<pc, req, sse, upstream, answer_parts, graph_messages, llm, answer,
                   outcome, checkpoint, session_lock, calls, loaded, opVars, pipeVars,
                   rankVars, extraVars, projectVars, gwVars>>

\* ---- projects: create_project, ingest_document, delete_project
\*
\* Names are sequences of characters.  The id of a project, of a document and
\* of a point is the number of the call that minted it (uuid4: never reused).
ProjectNames == {<<first, second>> : first \in {"A", "a"}, second \in {" ", "_", "b"}}
CollectionPrefix == "rag_suite_project"
Lower(c) == IF c = "A" THEN "a" ELSE c
ReplaceSpace(c) == IF c = " " THEN "_" ELSE c
\* f"{prefix}_{name.lower().replace(' ', '_')}"
collection_name(name) == <<CollectionPrefix, "_">> \o [k \in 1..Len(name) |-> ReplaceSpace(Lower(name[k]))]
CollectionNames == {collection_name(name) : name \in ProjectNames}
ProjectIds == 1..MaxProjectOps
NoProject == [exists |-> FALSE, name |-> <<>>, qdrant_collection_name |-> <<>>]
NoCollection == [exists |-> FALSE, points |-> {}]
NoProjectResult == [call |-> 0, op |-> "none", project |-> 0, status |-> "none"]
ProjectResult(op, project, status) == project_result' = [call |-> project_calls + 1, op |-> op, project |-> project, status |-> status]
ProjectCall == project_calls < MaxProjectOps /\ project_calls' = project_calls + 1
ProjectInit ==
    /\ projects = [p \in ProjectIds |-> NoProject]
    /\ project_documents = {}
    /\ collections = [c \in CollectionNames |-> NoCollection]
    /\ project_calls = 0
    /\ project_result = NoProjectResult

\* create_project: the name must be new; the collection name is derived from
\* the name and stored, and no collection is created yet
create_project(name, commit_ok) ==
    /\ ProjectCall
    /\ IF \E p \in ProjectIds : projects[p].exists /\ projects[p].name = name
       THEN ProjectResult("create_project", 0, "ValidationDomainError") /\ UNCHANGED projects
       ELSE IF ~commit_ok
       THEN ProjectResult("create_project", 0, "DatabaseError") /\ UNCHANGED projects
       ELSE /\ projects' = [projects EXCEPT ![project_calls + 1] =
                   [exists |-> TRUE, name |-> name, qdrant_collection_name |-> collection_name(name)]]
            /\ ProjectResult("create_project", project_calls + 1, "ok")
    /\ UNCHANGED <<project_documents, collections, outsideProject>>

IngestOutcomes == {"ok", "ensure_error", "upsert_error", "commit_error"}
ensure_collection(store, name) == [store EXCEPT ![name].exists = TRUE]
upsert_chunks(store, name, point) == [store EXCEPT ![name].points = @ \cup {point}]
\* ingest_document, from the lookup of the project to the commit: the
\* collection of the project is ensured, one point is upserted into it, and
\* the document is committed after the upsert
ingest_document(p, result) ==
    /\ ProjectCall
    /\ IF ~projects[p].exists
       THEN /\ ProjectResult("ingest_document", p, "ResourceNotFoundError")
            /\ UNCHANGED <<project_documents, collections>>
       ELSE LET name == projects[p].qdrant_collection_name
                point == [project |-> p, document |-> project_calls + 1]
                ensured == ensure_collection(collections, name)
            IN CASE result = "ensure_error" ->
                      /\ ProjectResult("ingest_document", p, "ExternalServiceError")
                      /\ UNCHANGED <<project_documents, collections>>
                 [] result = "upsert_error" ->
                      /\ ProjectResult("ingest_document", p, "ExternalServiceError")
                      /\ collections' = ensured
                      /\ UNCHANGED project_documents
                 [] result = "commit_error" ->
                      /\ ProjectResult("ingest_document", p, "DatabaseError")
                      /\ collections' = upsert_chunks(ensured, name, point)
                      /\ UNCHANGED project_documents
                 [] OTHER ->
                      /\ ProjectResult("ingest_document", p, "ok")
                      /\ collections' = upsert_chunks(ensured, name, point)
                      /\ project_documents' = project_documents \cup {point}
    /\ UNCHANGED <<projects, outsideProject>>

DeleteOutcomes == {"ok", "qdrant_error", "commit_error"}
\* QdrantIndexer.delete_collection: nothing to do for a missing collection
delete_collection(store, name) == [store EXCEPT ![name] = NoCollection]
\* delete_project: the collection is deleted first, then the row of the
\* project (its documents cascade) is deleted and committed
delete_project(p, result) ==
    /\ ProjectCall
    /\ IF ~projects[p].exists
       THEN /\ ProjectResult("delete_project", p, "ResourceNotFoundError")
            /\ UNCHANGED <<projects, project_documents, collections>>
       ELSE CASE result = "qdrant_error" ->
                   /\ ProjectResult("delete_project", p, "ExternalServiceError")
                   /\ UNCHANGED <<projects, project_documents, collections>>
              [] result = "commit_error" ->
                   /\ ProjectResult("delete_project", p, "DatabaseError")
                   /\ collections' = delete_collection(collections, projects[p].qdrant_collection_name)
                   /\ UNCHANGED <<projects, project_documents>>
              [] OTHER ->
                   /\ ProjectResult("delete_project", p, "ok")
                   /\ collections' = delete_collection(collections, projects[p].qdrant_collection_name)
                   /\ projects' = [projects EXCEPT ![p] = NoProject]
                   /\ project_documents' = {d \in project_documents : d.project # p}
    /\ UNCHANGED outsideProject

\* ---- the inference gateway: chat_completions_stream over chat_stream
\*
\* A line of the upstream is blank, malformed, or a JSON object from which
\* _parse_chat_stream_line takes a chunk.  None is the empty string for
\* finish_reason and the empty sequence for a token count.
StreamLine(kind, content_delta, done, finish_reason, prompt_tokens, completion_tokens) == [kind |-> kind, content_delta |-> content_delta, done |-> done, finish_reason |-> finish_reason, prompt_tokens |-> prompt_tokens, completion_tokens |-> completion_tokens]
JsonLine(content_delta, done, finish_reason, prompt_tokens, completion_tokens) == StreamLine("json", content_delta, done, finish_reason, prompt_tokens, completion_tokens)
UpstreamLines ==
    {StreamLine("blank", "", FALSE, "", <<>>, <<>>),
     StreamLine("malformed", "", FALSE, "", <<>>, <<>>),
     JsonLine("a", FALSE, "", <<>>, <<>>),
     JsonLine("b", FALSE, "", <<>>, <<>>),
     JsonLine("", FALSE, "", <<>>, <<>>),
     JsonLine("", TRUE, "length", <<2>>, <<1>>),
     JsonLine("b", TRUE, "", <<>>, <<>>),
     JsonLine("", TRUE, "stop", <<-1>>, <<3>>)}
\* chat_stream yields a chunk that has content or is the final one
Yielded(line) == line.kind = "json" /\ (line.content_delta # "" \/ line.done)
Frame(kind, content, finish_reason, usage) == [kind |-> kind, content |-> content, finish_reason |-> finish_reason, usage |-> usage]
NoUsage == <<>>
RoleFrame == Frame("role", "", "", NoUsage)
ContentFrame(content_delta) == Frame("content", content_delta, "", NoUsage)
FinishFrame(usage) == Frame("finish", "", usage.finish_reason, <<usage.prompt_tokens, usage.completion_tokens, usage.prompt_tokens + usage.completion_tokens>>)
DoneFrame == Frame("[DONE]", "", "", NoUsage)
InitialUsage == [prompt_tokens |-> 0, completion_tokens |-> 0, finish_reason |-> "stop"]
\* `if chunk.done:` of chat_completions_stream
UsageAfter(usage, chunk) ==
    IF ~chunk.done THEN usage
    ELSE [finish_reason |-> IF chunk.finish_reason # "" THEN chunk.finish_reason ELSE usage.finish_reason,
          prompt_tokens |-> IF chunk.prompt_tokens # <<>> THEN Max(chunk.prompt_tokens[1], 0) ELSE usage.prompt_tokens,
          completion_tokens |-> IF chunk.completion_tokens # <<>> THEN Max(chunk.completion_tokens[1], 0) ELSE usage.completion_tokens]
GwInit ==
    /\ gw_pc = "idle"
    /\ gw_lines = <<>>
    /\ gw_frames = <<>>
    /\ gw_usage = InitialUsage

\* the first yield: the assistant role, before the upstream is called
GwStart ==
    /\ gw_pc = "idle"
    /\ gw_pc' = "streaming"
    /\ gw_frames' = <<RoleFrame>>
    /\ UNCHANGED <<gw_lines, gw_usage, outsideGw>>
\* one line of the upstream: skipped, refused, or turned into a chunk that is
\* forwarded when it has content and read for the usage when it is final
GwLine(line) ==
    /\ gw_pc = "streaming" /\ Len(gw_lines) < MaxGwLines
    /\ gw_lines' = Append(gw_lines, line)
    /\ IF line.kind = "malformed"
       THEN gw_pc' = "failed" /\ UNCHANGED <<gw_frames, gw_usage>>
       ELSE /\ UNCHANGED gw_pc
            /\ IF Yielded(line)
               THEN /\ gw_frames' = IF line.content_delta # "" THEN Append(gw_frames, ContentFrame(line.content_delta)) ELSE gw_frames
                    /\ gw_usage' = UsageAfter(gw_usage, line)
               ELSE UNCHANGED <<gw_frames, gw_usage>>
    /\ UNCHANGED outsideGw
\* raise_for_status or a read of the body fails: httpx.HTTPError, raised as
\* ExternalServiceError through the generator
GwHttpError ==
    /\ gw_pc = "streaming"
    /\ gw_pc' = "failed"
    /\ UNCHANGED <<gw_lines, gw_frames, gw_usage, outsideGw>>
\* the upstream ends: the chunk with finish_reason and usage
GwFinish ==
    /\ gw_pc = "streaming"
    /\ gw_pc' = "finishing"
    /\ gw_frames' = Append(gw_frames, FinishFrame(gw_usage))
    /\ UNCHANGED <<gw_lines, gw_usage, outsideGw>>
\* the last yield
GwDone ==
    /\ gw_pc = "finishing"
    /\ gw_pc' = "closed"
    /\ gw_frames' = Append(gw_frames, DoneFrame)
    /\ UNCHANGED <<gw_lines, gw_usage, outsideGw>>

MoreInit == deletion = [s \in SessionIds |-> NoDeletion] /\ ProjectInit /\ GwInit

Init ==
    RagInit /\ OpInit /\ IngInit /\ RankInit /\ RerankerInit({TRUE}) /\ ExtraInit /\ MoreInit
\* the reranker backend under either setting of rerank_unload_after_request
InitReranker ==
    RagInit /\ OpInit /\ IngInit /\ RankInit /\ RerankerInit(BOOLEAN) /\ ExtraInit
    /\ MoreInit

\* one request at a time: every endpoint, every upstream piece, every failure
StreamInputs ==
    [requests |-> {r \in Requests : r.window = 2},
     pieces |-> Pieces, contents |-> BatchContents, failures |-> Failures,
     max_calls |-> MaxStreamCalls, max_deltas |-> MaxDeltas]
NextStream == RagStep("w1", StreamInputs)
SpecStream == Init /\ [][NextStream]_vars

\* overlapping requests on the threads of one graph service, with few texts
SessionInputs ==
    [requests |-> {r \in Requests : /\ r.message # <<Blank, WordChar>>
                                     /\ r.window = 2
                                     /\ r.variant = "reranked"},
     pieces |-> FewPieces, contents |-> FewContents, failures |-> {"domain"},
     max_calls |-> MaxCalls, max_deltas |-> MaxSessionDeltas]
NextSession == \E w \in Workers : RagStep(w, SessionInputs)
SpecSession == Init /\ [][NextSession]_vars
\* tracked requests, cancel calls and the upstream, in every interleaving
SpecOp == Init /\ [][OpStep]_vars
\* pipeline calls one after the other, with every outcome of the upstreams
SpecIngest == Init /\ [][IngStep]_vars

SpecHybrid == Init /\ [][HybridStep(HybridInputs)]_vars

SpecReranked == Init /\ [][RerankedStep(RerankedInputs)]_vars

SpecRerank == InitReranker /\ [][RerankerStep(RerankInputs)]_vars

SpecCache == InitReranker /\ [][RerankerStep(CacheInputs)]_vars

SpecResponse == Init /\ [][ResponseStep]_vars

SpecStore == Init /\ [][StoreStep]_vars

SpecNormalize == Init /\ [][NormalizeStep]_vars

SpecChunk == Init /\ [][ChunkStep]_vars

SpecFuse == Init /\ [][HybridStep(FuseInputs)]_vars

\* session chats of the reranked variant, one at a time, and deletions
DeleteInputs ==
    [requests |-> {r \in Requests : /\ r.message = <<WordChar>> /\ r.window = 2
                                     /\ r.variant = "reranked" /\ r.mode = "session"},
     pieces |-> FewPieces, contents |-> FewContents, failures |-> {"domain"},
     max_calls |-> MaxCalls, max_deltas |-> MaxSessionDeltas]
DeleteStep == RagStep("w1", DeleteInputs) \/ \E s \in SessionIds : delete_session(s)
SpecDelete == Init /\ [][DeleteStep]_vars

\* projects that are created, filled and deleted, one call at a time
ProjectStep ==
    \/ \E name \in ProjectNames, commit_ok \in BOOLEAN : create_project(name, commit_ok)
    \/ \E p \in ProjectIds, result \in IngestOutcomes : ingest_document(p, result)
    \/ \E p \in ProjectIds, result \in DeleteOutcomes : delete_project(p, result)
SpecProject == Init /\ [][ProjectStep]_vars

\* one streamed completion of the gateway over every upstream
GwStep == GwStart \/ (\E line \in UpstreamLines : GwLine(line)) \/ GwHttpError \/ GwFinish \/ GwDone
SpecGateway == Init /\ [][GwStep]_vars

\* calls one after the other on one thread, with every history window
WindowInputs ==
    [requests |-> {r \in Requests : r.message # <<Blank, WordChar>>},
     pieces |-> FewPieces, contents |-> FewContents, failures |-> {"domain"},
     max_calls |-> MaxCalls, max_deltas |-> MaxSessionDeltas]
SpecWindow == Init /\ [][RagStep("w1", WindowInputs)]_vars

\* ---------------------------------------------------------------------------
\* Part IV. Properties of the SSE streams (SpecStream)
\* ---------------------------------------------------------------------------
Names(es) == [k \in 1..Len(es) |-> es[k].name]
Count(es, name) == Len(SelectSeq(es, LAMBDA e : e.name = name))
Terminal(e) == e.name \in {"done", "error"}
Deltas(es) == SelectSeq(es, LAMBDA e : e.name = "delta")
DeltaContents(es) == [k \in 1..Len(Deltas(es)) |-> Deltas(es)[k].body]
DeltaText(es) == Concat(DeltaContents(es))
NonEmptyPieces(ps) == SelectSeq(ps, LAMBDA p : p # <<>>)
HasMarker(text) == \E k \in 1..Len(text) : text[k] = SourceTag
StreamRequest(w) == req[w].transport = "stream"
SessionStream(w) == StreamRequest(w) /\ req[w].mode = "session"
LastEvent(w) == sse[w][Len(sse[w])]
TurnOf(w, role) ==
    SelectSeq(checkpoint[Thread(req[w])],
              LAMBDA m : m.turn = req[w].turn /\ m.role = role)

\* C1 as stated: every closed stream starts with its single `meta` event, goes
\* on with `delta` events only, and ends with its single terminal event.
C1MetaAlwaysFirst ==
    \A w \in Workers :
        (StreamRequest(w) /\ pc[w] = "closed") =>
            /\ Len(sse[w]) >= 2
            /\ sse[w][1].name = "meta"
            /\ Count(sse[w], "meta") = 1
            /\ Terminal(LastEvent(w))
            /\ \A k \in 2..(Len(sse[w]) - 1) : sse[w][k].name = "delta"

\* C1, amended: a terminal event is the last event of its stream and every
\* closed stream has one; a `meta` event is the first event; `delta` events
\* exist only after `meta`, and on the streaming endpoints their contents are
\* the non-empty upstream pieces in upstream order; a stream that does not
\* start with `meta` is a single `error` event.
C1StreamShape ==
    \A w \in Workers :
        StreamRequest(w) =>
            LET es == sse[w]
                n == Len(es)
            IN  /\ \A k \in 1..n : Terminal(es[k]) => k = n
                /\ \A k \in 1..n : es[k].name = "meta" => k = 1
                /\ \A k \in 1..n : es[k].name = "delta" => es[1].name = "meta"
                /\ (n > 0 /\ es[1].name # "meta") => (n = 1 /\ es[1].name = "error")
                /\ pc[w] = "closed" => (n > 0 /\ Terminal(es[n]))
                /\ Streams(req[w]) => DeltaContents(es) = NonEmptyPieces(upstream[w])

\* a stream of three upstream pieces, one of them empty, that ended with `done`
C1Witness ==
    \E w \in Workers :
        /\ Streams(req[w]) /\ pc[w] = "closed"
        /\ Len(upstream[w]) = 3
        /\ Names(sse[w]) = <<"meta", "delta", "delta", "done">>

\* C2 as stated: the answer of `done` is the concatenation of the delta contents.
C2DoneIsDeltaConcatenation ==
    \A w \in Workers :
        (SessionStream(w) /\ pc[w] = "closed" /\ outcome[w] = "ok") =>
            LastEvent(w).body = DeltaText(sse[w])

\* C2, amended: in a session stream that ends with `done`, the answer of `done`
\* is the concatenation of the delta contents with the inline source markers
\* removed and the whitespace normalised; it holds no marker.
C2DoneIsNormalizedConcatenation ==
    \A w \in Workers :
        (SessionStream(w) /\ pc[w] = "closed" /\ outcome[w] = "ok") =>
            /\ LastEvent(w).name = "done"
            /\ LastEvent(w).body = StripInlineSourceTags(DeltaText(sse[w]))
            /\ ~HasMarker(LastEvent(w).body)

\* a session stream whose deltas held a marker and whose `done` answer does not
C2Witness ==
    \E w \in Workers :
        /\ SessionStream(w) /\ pc[w] = "closed" /\ outcome[w] = "ok"
        /\ HasMarker(DeltaText(sse[w]))
        /\ LastEvent(w).body # <<>>
        /\ LastEvent(w).body # DeltaText(sse[w])

\* C9: a stream whose request failed holds exactly one `error` event, it is
\* the last event, it carries a detail, no `done` event exists, and the stream
\* is closed.
C9SingleErrorEvent ==
    \A w \in Workers :
        (StreamRequest(w) /\ outcome[w] = "error") =>
            /\ pc[w] = "closed"
            /\ Count(sse[w], "error") = 1
            /\ LastEvent(w).name = "error"
            /\ LastEvent(w).body # <<>>
            /\ Count(sse[w], "done") = 0

\* generation failed after `meta` and a delta had been emitted
C9Witness ==
    \E w \in Workers :
        /\ Streams(req[w]) /\ outcome[w] = "error"
        /\ Names(sse[w]) = <<"meta", "delta", "error">>

\* C10 as stated: in a session stream the turn is in the checkpoint only once
\* no delta is left to emit, and the assistant message stored is the
\* concatenation of the delta contents.
C10AssistantIsDeltaConcatenation ==
    \A w \in Workers :
        SessionStream(w) =>
            /\ (TurnOf(w, "user") # <<>> \/ TurnOf(w, "assistant") # <<>>)
                   => pc[w] \in {"persist_assistant", "respond", "commit", "closed"}
            /\ \A k \in 1..Len(TurnOf(w, "assistant")) :
                   TurnOf(w, "assistant")[k].content = DeltaText(sse[w])

\* C10, amended: on the streaming session endpoint the turn is written to the
\* checkpoint only after the upstream stream has ended, the assistant message
\* stored is the concatenation of the delta contents with the source markers
\* removed and the whitespace normalised, and it is stored whenever that text
\* and the user message are not empty.
C10PersistAfterStream ==
    \A w \in Workers :
        (SessionStream(w) /\ Streams(req[w])) =>
            LET normalized == StripInlineSourceTags(DeltaText(sse[w]))
            IN  /\ (TurnOf(w, "user") # <<>> \/ TurnOf(w, "assistant") # <<>>)
                       => pc[w] \in {"persist_assistant", "respond", "commit", "closed"}
                /\ \A k \in 1..Len(TurnOf(w, "assistant")) :
                       TurnOf(w, "assistant")[k].content = normalized
                /\ (/\ pc[w] = "respond" \/ outcome[w] = "ok"
                    /\ Strip(req[w].message) # <<>>
                    /\ normalized # <<>>) => Len(TurnOf(w, "assistant")) = 1

\* a streamed session turn stored without the marker its deltas carried
C10Witness ==
    \E w \in Workers :
        /\ SessionStream(w) /\ Streams(req[w]) /\ outcome[w] = "ok"
        /\ Len(TurnOf(w, "assistant")) = 1
        /\ HasMarker(DeltaText(sse[w]))
        /\ TurnOf(w, "assistant")[1].content # DeltaText(sse[w])

\* ---------------------------------------------------------------------------
\* Part V. Properties of the checkpoint threads (SpecSession)
\* ---------------------------------------------------------------------------
WholeTurns(ms) ==
    /\ Len(ms) % 2 = 0
    /\ \A k \in 1..Len(ms) :
           k % 2 = 1 => /\ ms[k].role = "user"
                        /\ ms[k + 1].role = "assistant"
                        /\ ms[k + 1].turn = ms[k].turn
Extends(new, old) == Len(new) > Len(old) /\ SubSeq(new, 1, Len(old)) = old
Acted(w) == pc'[w] # pc[w] \/ upstream'[w] # upstream[w]

\* C6 as stated: whenever no writer holds the lock, every thread is a sequence
\* of whole turns, a user message followed by the assistant message of that turn.
C6WholeTurns ==
    \A t \in Threads : session_lock[t[1]] = NoWorker => WholeTurns(checkpoint[t])

\* what C6 requires of every thread at every moment
TurnsSerialized ==
    \A t \in Threads :
        LET ms == checkpoint[t]
        IN  /\ \A k \in 1..Len(ms) :
                   ms[k].role = "assistant" =>
                       k > 1 /\ ms[k - 1].role = "user" /\ ms[k - 1].turn = ms[k].turn
            /\ \A j, k \in 1..Len(ms) :
                   (j < k /\ ms[j].turn = ms[k].turn) =>
                       k = j + 1 /\ ms[j].role = "user" /\ ms[k].role = "assistant"

\* C6, amended: a thread is written only by the holder of the lock of its graph
\* service; in every thread an assistant message comes immediately after the
\* user message of the same turn, and the messages of one turn are adjacent, so
\* two turns never interleave; a turn may consist of its user message alone.
C6SerializedTurns ==
    /\ []TurnsSerialized
    /\ [][\A t \in Threads :
              checkpoint'[t] # checkpoint[t] =>
                  session_lock[t[1]] # NoWorker \/ session_lock'[t[1]] # NoWorker]_vars

\* one request is between its two writes while another waits to write to the
\* same thread
C6Witness ==
    \E w1, w2 \in Workers :
        /\ w1 # w2
        /\ IsSession(w1) /\ IsSession(w2)
        /\ Thread(req[w1]) = Thread(req[w2])
        /\ pc[w1] = "persist_assistant"
        /\ pc[w2] = "persist"
        /\ Strip(req[w2].message) # <<>>

\* C7 as stated: after a session call has completed, its thread holds the new
\* user message immediately followed by the new assistant message.
C7TurnAppended ==
    \A w \in Workers :
        (IsSession(w) /\ outcome[w] = "ok") =>
            \E k \in 1..(Len(checkpoint[Thread(req[w])]) - 1) :
                LET ms == checkpoint[Thread(req[w])]
                IN  /\ ms[k].turn = req[w].turn /\ ms[k].role = "user"
                    /\ ms[k + 1].turn = req[w].turn /\ ms[k + 1].role = "assistant"

\* what a completed session call has left in its thread
CompletedTurnStored ==
    \A w \in Workers :
        (IsSession(w) /\ outcome[w] = "ok") =>
            LET mine == SelectSeq(checkpoint[Thread(req[w])],
                                  LAMBDA m : m.turn = req[w].turn)
                turn == req[w].turn
                normalized == StripInlineSourceTags(DeltaText(sse[w]))
                user == [role |-> "user", content |-> Strip(req[w].message), turn |-> turn]
                reply == [role |-> "assistant", content |-> normalized, turn |-> turn]
            IN  IF Streams(req[w])
                THEN mine = IF Strip(req[w].message) = <<>> THEN <<>>
                            ELSE IF normalized = <<>> THEN <<user>>
                            ELSE <<user, reply>>
                ELSE mine = <<UserMessage(req[w]),
                              [role |-> "assistant", content |-> answer[w], turn |-> turn]>>

\* C7, amended: every write to a thread appends to the list stored at that
\* moment, at most a user and an assistant message, so threads keep the turns
\* in the order of their writes; a completed streaming call has appended its
\* stripped user message, unless it is empty, followed by its normalised
\* answer, unless that is empty; a completed batch call has appended its user
\* message and its answer.
C7TurnsAppendedInOrder ==
    /\ []CompletedTurnStored
    /\ [][\A t \in Threads :
              checkpoint'[t] # checkpoint[t] =>
                  /\ Extends(checkpoint'[t], checkpoint[t])
                  /\ Len(checkpoint'[t]) <= Len(checkpoint[t]) + 2]_vars

\* the second completed call of a session finds both turns in call order
C7Witness ==
    \E w \in Workers :
        /\ IsSession(w) /\ outcome[w] = "ok" /\ req[w].turn = 2
        /\ Len(checkpoint[Thread(req[w])]) = 4
        /\ [k \in 1..4 |-> checkpoint[Thread(req[w])][k].turn] = <<1, 1, 2, 2>>

\* C8: the messages a stateless call sends to the model hold no history and
\* only the call's own question, and no step of a stateless call changes the
\* checkpoint store or the session store.
C8StatelessIsolated ==
    /\ [](\A w \in Workers :
              (req[w].mode = "stateless" /\ llm[w].sent) =>
                  /\ llm[w].history = <<>>
                  /\ llm[w].question = Strip(req[w].message))
    /\ [][\A w \in Workers :
              (Acted(w) /\ req'[w].mode = "stateless") =>
                  UNCHANGED <<checkpoint, session_rows>>]_vars

\* a stateless call has sent its messages while the thread and the session row
\* of its project and session hold an earlier turn
C8Witness ==
    \E w \in Workers :
        /\ req[w].mode = "stateless" /\ llm[w].sent
        /\ Strip(req[w].message) # <<>>
        /\ checkpoint[Thread(req[w])] # <<>>
        /\ session_rows[req[w].session].exists

\* the messages one append_turn call stores: the stripped user message and the
\* stripped assistant message, each unless empty
TurnMessages(w) ==
    append_turn(NoRow, req[w].message, ResponseAnswer(answer[w]), req[w].turn).messages

SessionStoreCall(w) == IsSession(w) /\ req[w].variant = "reranked"

\* C11 as stated: once no append_turn call is between its read and its commit,
\* the row of a session holds the messages of every call on it that completed,
\* the user message immediately before the assistant message, and
\* message_count is the number of messages stored.
C11AppendsSerialized ==
    (\A w \in Workers : pc[w] \notin {"commit", "graph_commit"}) =>
        \A s \in SessionIds :
            LET row == session_rows[s]
            IN  /\ row.message_count = Len(row.messages)
                /\ \A w \in Workers :
                       (SessionStoreCall(w) /\ req[w].session = s /\ outcome[w] = "ok") =>
                           \E k \in 0..(Len(row.messages) - Len(TurnMessages(w))) :
                               SubSeq(row.messages, k + 1, k + Len(TurnMessages(w)))
                                   = TurnMessages(w)

\* ---------------------------------------------------------------------------
\* Part VI. Properties of the operation manager (SpecOp)
\* ---------------------------------------------------------------------------

\* C3 as stated: a request whose flag a cancel call set while its HTTP call was
\* in flight ends with OperationCancelled and with its HTTP task cancelled.
C3CancelInFlightCancels ==
    \A r \in cancelled_in_flight :
        op_pc[r] = "ended" =>
            /\ op_result[r] = "OperationCancelled"
            /\ request_task[r] = "cancelled"

\* C4: a cancel call for an id the registry does not hold answers
\* cancelled = false and changes neither the registry nor any flag.
C4UnknownCancelIsNoop ==
    [][\A id \in OpIds :
           (/\ cancel_calls' = cancel_calls + 1
            /\ last_cancel'.operation_id = id
            /\ events[id] = NoOp) =>
               /\ ~last_cancel'.cancelled
               /\ UNCHANGED <<events, event_set>>]_vars

\* a cancel for the id of an ended request was answered false while another
\* request was registered
C4Witness ==
    /\ cancel_calls > 0
    /\ ~last_cancel.cancelled
    /\ \E r \in OpRequests : op_pc[r] = "ended" /\ op_id[r] = last_cancel.operation_id
    /\ \E q \in OpRequests : Running(q) /\ events[op_id[q]] = q

\* C5 as stated: the id of a running tracked request is registered, and the id
\* of an ended request is not registered unless another running request uses it.
C5RegisteredWhileRunning ==
    \A r \in OpRequests :
        /\ Running(r) => events[op_id[r]] # NoOp
        /\ (op_pc[r] = "ended" /\ ~\E q \in OpRequests : Running(q) /\ op_id[q] = op_id[r])
               => events[op_id[r]] = NoOp

\* C12 as stated: a tracked request that makes one upstream call per chunk
\* starts no call while its cancel flag is set, and a request whose flag was
\* set while a call was in flight ends with OperationCancelled.
C12CancelStopsContextualization ==
    /\ [][\A r \in OpRequests :
              (op_pc[r] = "tracked" /\ op_pc'[r] = "waiting") => ~event_set[r]]_vars
    /\ [](\A r \in cancelled_in_flight :
              op_pc[r] = "ended" => op_result[r] = "OperationCancelled")

\* ---------------------------------------------------------------------------
\* Part VIII. Properties of the ingestion pipeline (SpecIngest)
\* ---------------------------------------------------------------------------
FallbackRationale == "Fallback to deterministic chunking"
FallbackChunks(text, o) ==
    [k \in 1..Len(DeterministicChunks(text, o)) |->
         [DeterministicChunks(text, o)[k] EXCEPT !.rationale = FallbackRationale]]

\* C13 as stated: a chunk call in agentic mode always succeeds; it returns the
\* chunks of a valid completion, or else the chunks the deterministic chunker
\* makes of the same text and options, with the fallback rationale.
C13AgenticFallback ==
    [][(ing_pc = "agentic" /\ ing_req.op = "chunk" /\ ing_pc' = "idle") =>
           /\ ing_result'.status = "ok"
           /\ \/ ing_result'.chunks = FallbackChunks(ing_req.text, ing_req.options)
              \/ \E raw \in AgenticCompletions :
                     /\ AgenticValid(raw)
                     /\ ing_result'.chunks = AgenticChunks(ing_req.text, raw)]_vars

IndexingStages == {"embed", "ensure_collection", "upsert"}
PointsOf(document) ==
    {<<document.id, document.chunks[k].chunk_index>> : k \in 1..Len(document.chunks)}

\* C14: the committed documents change only by the commit that follows a
\* successful upsert, which adds the flushed document with its chunk rows when
\* all its points are in the vector store; after a call that failed in
\* embedding, collection creation or upsert, no row of its document is
\* committed and none is left pending.
C14CommitAfterUpsert ==
    /\ [][sql_documents' # sql_documents =>
              /\ ing_pc = "commit" /\ sql_pending # NoDocument
              /\ sql_documents' =
                     sql_documents \cup {[id |-> sql_pending, chunks |-> ing_chunks]}
              /\ PointsOf([id |-> sql_pending, chunks |-> ing_chunks]) \subseteq qdrant_points
              /\ ing_result'.status = "ok"]_vars
    /\ [](ing_result.at \in IndexingStages =>
              /\ ing_result.status = "ExternalServiceError"
              /\ sql_pending = NoDocument
              /\ \A d \in sql_documents : d.id # ing_calls)

\* the second ingest fails in the upsert, after its document was flushed,
\* while the document of the first ingest is committed
C14Witness ==
    /\ ing_result.at = "upsert"
    /\ \E d \in sql_documents : d.id = 1 /\ d.chunks # <<>>
    /\ ing_calls = 2

WellFormedChunks(chunks) ==
    /\ {chunks[k].chunk_index : k \in 1..Len(chunks)} = 0..(Len(chunks) - 1)
    /\ \A k \in 1..Len(chunks) :
           0 <= chunks[k].start_char /\ chunks[k].start_char < chunks[k].end_char

\* C20 as stated: the chunk rows of every committed document, of either
\* workflow, have the chunk_index values 0..n-1 and 0 <= start_char < end_char.
C20ChunkRowsWellFormed ==
    \A d \in sql_documents : WellFormedChunks(d.chunks)

\* ---------------------------------------------------------------------------
\* Part X. Properties of retrieval (SpecRerank, SpecReranked, SpecCache,
\* SpecHybrid)
\* ---------------------------------------------------------------------------
\* positions, in the documents of the request, of the documents that are
\* passed to the encoder
KeptPositions(documents) ==
    SelectSeq([k \in 1..Len(documents) |-> k], LAMBDA k : Strip(documents[k]) # <<>>)

\* C15: a rerank call that succeeds returns min(top_n, number of documents of
\* the request) rows (all of them without top_n), by relevance score
\* descending, and the index of a row is the position, in the documents of
\* the request, of the document that got the row's score.
C15RerankRows ==
    \A t \in RerankCallers :
        rr_result[t].status = "ok" =>
            LET documents == rr_req[t].documents
                top_n == rr_req[t].top_n
                rows == rr_result[t].results
            IN  /\ Len(rows) = IF top_n = NoTopN THEN Len(documents)
                               ELSE Min(top_n, Len(documents))
                /\ \A k \in 1..(Len(rows) - 1) :
                       rows[k].relevance_score >= rows[k + 1].relevance_score
                /\ \A k \in 1..Len(rows) :
                       /\ rows[k].relevance_score = rr_scores[t][rows[k].index + 1]
                       /\ KeptPositions(documents)[rows[k].index + 1] = rows[k].index + 1

FirstRowNaming(rows, index) ==
    CHOOSE r \in 1..Len(rows) :
        rows[r].index = index /\ \A q \in 1..(r - 1) : rows[q].index # index

\* C16: the final sources of a reranked retrieval carry the ranks 1..k and the
\* source ids S1..Sk in their order, and each of them carries the hybrid rank
\* of the candidate it was made from as original_rank and, when the reranker
\* named that candidate, the score of the first row that names it.
C16FinalSources ==
    reranked_result.ran =>
        LET sources == reranked_result.sources
            hybrid_candidates == reranked_result.hybrid_candidates
            rows == reranked_result.rerank_rows
        IN  /\ Len(sources) <= reranked_result.top_k
            /\ \A k \in 1..Len(sources) :
                   /\ sources[k].rank = k /\ sources[k].source_id = <<"S", k>>
                   /\ \A j \in 1..Len(sources) :
                          sources[j].chunk_key = sources[k].chunk_key => j = k
                   /\ \E c \in 1..Len(hybrid_candidates) :
                          /\ hybrid_candidates[c].chunk_key = sources[k].chunk_key
                          /\ sources[k].original_rank = hybrid_candidates[c].rank
                          /\ sources[k].hybrid_score = hybrid_candidates[c].hybrid_score
                          /\ (\E r \in 1..Len(rows) : rows[r].index = c - 1) =>
                                 sources[k].rerank_score =
                                     rows[FirstRowNaming(rows, c - 1)].relevance_score
\* the reranker named a candidate that does not exist, then the second
\* candidate twice with two scores: that candidate is the one final source
C16Witness ==
    /\ reranked_result.ran /\ reranked_result.top_k = 2
    /\ Len(reranked_result.hybrid_candidates) = 2
    /\ Len(reranked_result.sources) = 1
    /\ reranked_result.sources[1].original_rank = 2
    /\ Len(reranked_result.rerank_rows) = 3
    /\ reranked_result.rerank_rows[1].index = 2
    /\ reranked_result.rerank_rows[2].index = 1
    /\ reranked_result.rerank_rows[3].index = 1
    /\ reranked_result.rerank_rows[2].relevance_score
           # reranked_result.rerank_rows[3].relevance_score

AllReranksFinished == \A t \in RerankCallers : rr_pc[t] = "idle"

\* C17: with unload_after_request the cache holds no model whenever no rerank
\* call is running; without it a model that is in the cache stays there and
\* the loader is not called for it again.
C17CachePolicy ==
    /\ []((unload_after_request /\ AllReranksFinished) => model_cache = {})
    /\ [][~unload_after_request =>
              \A m \in model_cache : m \in model_cache' /\ loads'[m] = loads[m]]_vars
\* two calls for one model overlapped, one loaded it, both have ended
C17Witness ==
    /\ unload_after_request /\ AllReranksFinished /\ rr_calls = 2
    /\ \A t \in RerankCallers : rr_result[t].status = "ok"
    /\ ResolvedModel(1) = ResolvedModel(2)
    /\ loads[ResolvedModel(1)] = 1

\* C18: the chunks of a hybrid retrieval are in descending order of
\* (hybrid_score, dense_score, sparse_score), and their ranks are 1..n in
\* that order.
C18HybridOrder ==
    hybrid_result.ran =>
        LET chunks == hybrid_result.chunks
        IN  /\ Len(chunks) <= hybrid_result.top_k
            /\ \A k \in 1..Len(chunks) :
                   /\ chunks[k].rank = k
                   /\ k < Len(chunks) =>
                          ~TupleGreater(<<chunks[k + 1].hybrid_score,
                                          chunks[k + 1].dense_score,
                                          chunks[k + 1].sparse_score>>,
                                        <<chunks[k].hybrid_score, chunks[k].dense_score,
                                          chunks[k].sparse_score>>)
\* three chunks, the first two with one hybrid score and two dense scores
C18Witness ==
    /\ hybrid_result.ran /\ Len(hybrid_result.chunks) = 3
    /\ hybrid_result.chunks[1].hybrid_score = hybrid_result.chunks[2].hybrid_score
    /\ hybrid_result.chunks[1].dense_score > hybrid_result.chunks[2].dense_score
    /\ hybrid_result.chunks[2].hybrid_score > hybrid_result.chunks[3].hybrid_score

PositionOf(candidates, chunk_key) == CHOOSE k \in 1..Len(candidates) : candidates[k] = chunk_key

\* C19: a hybrid retrieval that is repeated with the same candidates, scores
\* and parameters returns the same list, and chunks with equal hybrid, dense
\* and sparse scores are in the order of the candidates.
C19Deterministic ==
    /\ hybrid_result.repeated => hybrid_result.again = hybrid_result.chunks
    /\ hybrid_result.ran =>
           LET chunks == hybrid_result.chunks
           IN  \A i, j \in 1..Len(chunks) :
                   (/\ i < j
                    /\ chunks[i].hybrid_score = chunks[j].hybrid_score
                    /\ chunks[i].dense_score = chunks[j].dense_score
                    /\ chunks[i].sparse_score = chunks[j].sparse_score) =>
                       PositionOf(hybrid_result.candidates, chunks[i].chunk_key)
                           < PositionOf(hybrid_result.candidates, chunks[j].chunk_key)

\* ---------------------------------------------------------------------------
\* Part XII. Properties of Part XI and of the earlier parts
\* ---------------------------------------------------------------------------
FirstCited(answer_raw, id) ==
    CHOOSE k \in 1..Len(answer_raw) :
        /\ IsTag(answer_raw[k]) /\ TagId(answer_raw[k]) = id
        /\ \A m \in 1..(k - 1) : ~(IsTag(answer_raw[m]) /\ TagId(answer_raw[m]) = id)
CitedIds(answer_raw) == {TagId(answer_raw[k]) : k \in {m \in 1..Len(answer_raw) : IsTag(answer_raw[m])}}

\* C21: the answer of a chat response holds no citation marker, and its
\* citations_used holds, once each and in the order of their first marker,
\* the source ids that the raw answer of the model cites and that are source
\* ids of the response.
C21CitationsListed ==
    chat_response.built =>
        LET used == chat_response.citations_used
            expected == CitedIds(chat_response.answer_raw)
                            \cap {SourceId(k) : k \in 1..chat_response.source_count}
        IN  /\ \A k \in 1..Len(chat_response.answer) : ~IsTag(chat_response.answer[k])
            /\ {used[k] : k \in 1..Len(used)} = expected
            /\ \A i, j \in 1..Len(used) :
                   i < j => FirstCited(chat_response.answer_raw, used[i])
                                < FirstCited(chat_response.answer_raw, used[j])

TitleBefore == IF store_last.before.exists THEN store_last.before.title ELSE DefaultTitle
NonEmptyUserMessages(messages) ==
    SelectSeq(messages, LAMBDA m : m.role = "user" /\ Strip(m.content) # <<>>)

\* C22: append_turn leaves a title that is not the default as it is; a title
\* that is the default becomes the first non-empty user message of the
\* session, trimmed, with its newlines made blanks and cut to 64 characters
\* (and stays the default when the session has no such message).
C22TitleFromFirstMessage ==
    (store_last.op = "append_turn") =>
        LET users == NonEmptyUserMessages(store_row.messages)
            candidate == ReplaceNewlines(Strip(users[1].content))
        IN  IF Strip(TitleBefore) \notin {<<>>, DefaultTitle}
            THEN store_row.title = TitleBefore
            ELSE IF users = <<>> THEN store_row.title = DefaultTitle
            ELSE /\ store_row.title =
                        SubSeq(candidate, 1, Min(Len(candidate), TITLE_FROM_MESSAGE_CHARS))
                 /\ Len(store_row.title) <= TITLE_FROM_MESSAGE_CHARS
                 /\ \A k \in 1..Len(store_row.title) : store_row.title[k] # Newline
\* the title of an existing session was the default and became the first 64
\* characters of a longer user message
C22Witness ==
    /\ store_last.op = "append_turn" /\ store_last.before.exists
    /\ store_last.before.title = DefaultTitle
    /\ store_last.user_message = LongMessage
    /\ Len(store_row.title) = TITLE_FROM_MESSAGE_CHARS
    /\ Len(Strip(LongMessage)) > TITLE_FROM_MESSAGE_CHARS

\* C23: append_turn with a user message and an assistant message that are
\* empty or whitespace leaves the messages of the session and its
\* message_count as they were.
C23EmptyTurnIsNoOp ==
    (/\ store_last.op = "append_turn"
     /\ Strip(store_last.user_message) = <<>>
     /\ Strip(store_last.assistant_message) = <<>>) =>
        /\ store_row.messages = store_last.before.messages
        /\ store_row.message_count = store_last.before.message_count
\* the third call in a row with whitespace only, on a session with messages
C23Witness ==
    /\ store_last.op = "append_turn" /\ store_ops = MaxStoreOps
    /\ store_last.user_message = <<Blank>> /\ store_last.assistant_message = <<Newline>>
    /\ store_last.before.messages # <<>>
    /\ store_row.messages = store_last.before.messages

\* C24: message_count is the number of stored messages after every call of
\* create_session, update_session and append_turn, and an append_turn with a
\* non-empty user message and a non-empty assistant message adds exactly the
\* user message and then the assistant message.
C24CountMatchesMessages ==
    /\ store_row.message_count = Len(store_row.messages)
    /\ (/\ store_last.op = "append_turn"
        /\ Strip(store_last.user_message) # <<>>
        /\ Strip(store_last.assistant_message) # <<>>) =>
           store_row.messages =
               store_last.before.messages
                   \o <<[role |-> "user", content |-> Strip(store_last.user_message),
                         turn |-> 0],
                        [role |-> "assistant",
                         content |-> Strip(store_last.assistant_message), turn |-> 0]>>
\* a turn was appended after an update replaced the transcript
C24Witness ==
    /\ store_last.op = "append_turn" /\ store_ops = MaxStoreOps
    /\ Len(store_last.before.messages) = 2 /\ store_last.before.messages[1].role = "assistant"
    /\ store_row.message_count = 4
    /\ store_row.messages[3].role = "user" /\ store_row.messages[4].role = "assistant"

\* the messages of earlier calls among the messages of a run, as they are sent
PriorMessages(w) ==
    _to_openai_messages(SelectSeq(graph_messages[w], LAMBDA m : m.turn # req[w].turn))

\* a call with a whitespace message on a thread whose last message is a user
\* message (left by a run that failed): that message is the question then
QuestionFromThread(w) ==
    /\ Strip(req[w].message) = <<>>
    /\ PriorMessages(w) # <<>>
    /\ PriorMessages(w)[Len(PriorMessages(w))].role = "user"

\* C25: the history that is sent to the chat model, between the system prompt
\* and the user prompt, is the last min(window, n) of the n messages of the
\* thread that precede the question, in their order; with a window of 0 it is
\* empty.
C25HistoryWindow ==
    [][\A w \in Workers :
           (llm'[w].sent /\ llm'[w] # llm[w]) =>
               LET prior == IF QuestionFromThread(w)
                            THEN SubSeq(PriorMessages(w), 1, Len(PriorMessages(w)) - 1)
                            ELSE PriorMessages(w)
                   window == req[w].window
                   history == llm'[w].history
               IN  /\ Len(history) <= window
                   /\ window = 0 => history = <<>>
                   /\ Len(history) = IF Len(prior) > window THEN window ELSE Len(prior)
                   /\ history = SubSeq(prior, Len(prior) - Len(history) + 1, Len(prior))]_vars
\* a session call with a window of 1 sent the later one of two prior messages
C25Witness ==
    \E w \in Workers :
        /\ llm[w].sent /\ req[w].window = 1 /\ req[w].turn = 2
        /\ Len(llm[w].history) = 1 /\ llm[w].history[1].role = "assistant"

\* C26: normalizing the text that a normalization returned, with the same
\* options, returns that text, removes no repeated line and collapses no
\* whitespace.
C26NormalizeIdempotent ==
    norm_result.again =>
        /\ norm_result.second.normalized_text = norm_result.first.normalized_text
        /\ norm_result.second.removed_repeated_line_count = 0
        /\ norm_result.second.collapsed_whitespace_count = 0


\* C27: every chunk of the deterministic chunker is at most
\* max_chunk_chars + max(80, overlap_chars) characters long, for every text
\* and for options within the ranges of the request model
C27ChunkLength ==
    chunk_result.ran =>
        \A k \in 1..Len(chunk_result.chunks) :
            Len(chunk_result.chunks[k].text) <= heading_fusion_budget(chunk_result.options)

\* the chunks are in descending order of value(score of the chunk)
Descending(chunks, scores, value(_)) ==
    \A k \in 1..(Len(chunks) - 1) :
        value(scores[chunks[k].chunk_key]) >= value(scores[chunks[k + 1].chunk_key])
AsGiven(score) == score
Clamped(score) == Max(0, score)
DenseOnly == hybrid_result.dense_weight = 10 /\ DOMAIN hybrid_result.sparse_scores = {}
SparseOnly == hybrid_result.dense_weight = 0 /\ DOMAIN hybrid_result.dense_scores = {}

\* C28 as stated: fusing with dense_weight = 1 and an empty sparse-score map
\* returns the candidates in descending order of their dense scores, and
\* fusing with dense_weight = 0 and an empty dense-score map returns them in
\* descending order of their sparse scores.
C28SingleSignalOrder ==
    hybrid_result.ran =>
        /\ DenseOnly => Descending(hybrid_result.chunks, hybrid_result.dense_scores, AsGiven)
        /\ SparseOnly => Descending(hybrid_result.chunks, hybrid_result.sparse_scores, AsGiven)

\* the first min(top_k, number of scored candidates) of the scored candidates
\* in descending order of their scores clamped at 0
TopClamped(chunks, scores, top_k) ==
    /\ Len(chunks) = Min(top_k, Cardinality(DOMAIN scores))
    /\ \A k \in 1..Len(chunks) : chunks[k].chunk_key \in DOMAIN scores
    /\ \A i, j \in 1..Len(chunks) : i # j => chunks[i].chunk_key # chunks[j].chunk_key
    /\ Descending(chunks, scores, Clamped)
    /\ \A key \in DOMAIN scores :
           (\A k \in 1..Len(chunks) : chunks[k].chunk_key # key) =>
               \A k \in 1..Len(chunks) :
                   Clamped(scores[chunks[k].chunk_key]) >= Clamped(scores[key])

\* C28, amended: with dense_weight = 1 and an empty sparse-score map the
\* result is the first top_k of the candidates that have a dense score, in
\* descending order of their dense scores clamped at 0, each with that clamped
\* score as its dense_score; with dense_weight = 0 and an empty dense-score
\* map the same holds for the sparse scores.
C28ClampedOrder ==
    hybrid_result.ran =>
        /\ DenseOnly =>
               /\ TopClamped(hybrid_result.chunks, hybrid_result.dense_scores,
                             hybrid_result.top_k)
               /\ \A k \in 1..Len(hybrid_result.chunks) :
                      hybrid_result.chunks[k].dense_score =
                          Clamped(hybrid_result.dense_scores[hybrid_result.chunks[k].chunk_key])
        /\ SparseOnly =>
               /\ TopClamped(hybrid_result.chunks, hybrid_result.sparse_scores,
                             hybrid_result.top_k)
               /\ \A k \in 1..Len(hybrid_result.chunks) :
                      hybrid_result.chunks[k].sparse_score =
                          Clamped(hybrid_result.sparse_scores[hybrid_result.chunks[k].chunk_key])
\* dense only, three chunks: a positive score first, then a score of -1 before
\* a score of 0
C28Witness ==
    /\ hybrid_result.ran /\ DenseOnly /\ Len(hybrid_result.chunks) = 3
    /\ hybrid_result.dense_scores[hybrid_result.chunks[1].chunk_key] = 2
    /\ hybrid_result.dense_scores[hybrid_result.chunks[2].chunk_key] = -1
    /\ hybrid_result.dense_scores[hybrid_result.chunks[3].chunk_key] = 0

\* the caller is inside the with block of _get_or_load_model and the model
\* is not in the cache: the loader is called before the lock is released
LoadInProgress(t) == rr_pc[t] = "locked" /\ NeedsLoad(t)
LoadersOf(m) == {t \in RerankCallers : LoadInProgress(t) /\ ResolvedModel(t) = m}

\* C29: of the rerank calls that run at one time at most one is loading a
\* given model, and the loader is called only by a caller that holds the lock
\* and does not find the model in the cache: a call that found the model,
\* at the look without the lock or at the look under it, never calls it.
C29SingleFlight ==
    /\ [](\A m \in ResolvedModels : Cardinality(LoadersOf(m)) <= 1)
    /\ [][\A m \in ResolvedModels :
              loads'[m] # loads[m] =>
                  /\ loads'[m] = loads[m] + 1
                  /\ m \notin model_cache
                  /\ cache_lock \in LoadersOf(m)]_vars
\* two calls for one model: one is loading it, the other waits for the lock
C29Witness ==
    /\ LoadInProgress(1) /\ rr_pc[2] = "wait_lock"
    /\ ResolvedModel(1) = ResolvedModel(2)

\* the running requests that are tracked under an operation id
RunningUnder(id) == {r \in OpRequests : Running(r) /\ op_id[r] = id}

\* C30 as stated: while a request that is tracked under an operation id is
\* running, also when another request was tracked under the same id at an
\* overlapping time, a cancel for the id answers cancelled = true and sets the
\* flag of every running request under the id; and a request that ends leaves
\* the id registered while another request under it is running.
C30SharedIdCancel ==
    [][\A id \in OpIds :
           /\ (/\ cancel_calls' = cancel_calls + 1
               /\ last_cancel'.operation_id = id
               /\ RunningUnder(id) # {}) =>
                  /\ last_cancel'.cancelled
                  /\ \A r \in RunningUnder(id) : event_set'[r]
           /\ (/\ \E r \in RunningUnder(id) : op_pc'[r] = "ended"
               /\ \E q \in RunningUnder(id) : op_pc'[q] # "ended") =>
                  events'[id] # NoOp]_vars

\* ---------------------------------------------------------------------------
\* Part XIII. Properties of overlapping sessions, deletions and projects
\* ---------------------------------------------------------------------------
\* the worker writes the user message of its turn to the thread in this step:
\* persist_session_turn of a stream, or the checkpoint of a graph run
StoresTurn(w) ==
    /\ IsSession(w)
    /\ \/ pc[w] = "persist" /\ pc'[w] = "persist_assistant"
       \/ pc[w] = "graph_generate" /\ pc'[w] = "graph_respond"

\* C31 as stated: a turn that is stored in a checkpoint thread was generated
\* from the prompt that the turns stored before it give: its history is the
\* history window of all messages the thread holds when the turn is stored.
C31HistoryHoldsStoredTurns ==
    [][\A w \in Workers :
           StoresTurn(w) =>
               llm'[w] = GenerationMessages(req[w], checkpoint[Thread(req[w])]
                                                        \o <<UserMessage(req[w])>>)]_vars

\* a session stream of the reranked variant has ended
SessionStreamEnded(w) ==
    pc[w] = "closed" /\ IsSession(w) /\ Streams(req[w])
HoldsTurn(messages, turn) == \E k \in 1..Len(messages) : messages[k].turn = turn
InCheckpoint(w) == HoldsTurn(checkpoint[Thread(req[w])], req[w].turn)
InSessionStore(w) == HoldsTurn(session_rows[req[w].session].messages, req[w].turn)
EndsWith(w, name) == sse[w] # <<>> /\ LastEvent(w).name = name

\* C32 as stated: when a session stream has ended, its turn is in the
\* checkpoint thread and in the session store and the last event is `done`,
\* or it is in neither and the last event is `error`.
C32TurnInBothOrNeither ==
    \A w \in Workers :
        SessionStreamEnded(w) =>
            \/ InCheckpoint(w) /\ InSessionStore(w) /\ EndsWith(w, "done")
            \/ ~InCheckpoint(w) /\ ~InSessionStore(w) /\ EndsWith(w, "error")

\* the request is a session chat of the reranked variant that started after
\* the latest deletion of its session
AfterDeletion(w) ==
    /\ IsSession(w) /\ req[w].variant = "reranked"
    /\ deletion[req[w].session].calls > 0
    /\ req[w].turn > deletion[req[w].session].calls
\* the messages the request started from, without those the deletion removed
KeptMessages(w) ==
    SelectSeq(graph_messages[w], LAMBDA m : m.turn \notin deletion[req[w].session].turns)

\* C33 as stated: a session chat that starts after the deletion of its session
\* sends to the model the prompt it would send if the messages stored before
\* the deletion were not there, and the row of a session holds no message
\* that a deletion removed.
C33DeletedSessionStartsEmpty ==
    /\ \A w \in Workers :
           (AfterDeletion(w) /\ llm[w].sent) =>
               llm[w] = GenerationMessages(req[w], KeptMessages(w))
    /\ \A s \in SessionIds :
           TurnsOf(session_rows[s].messages) \cap deletion[s].row_turns = {}

\* C34 as stated: whatever rows the reranker answers, the final sources of a
\* reranked retrieval hold no chunk twice, each of them is one of the hybrid
\* candidates, and there are min(top_k, number of hybrid candidates) of them.
C34FinalSourcesComplete ==
    reranked_result.ran =>
        LET sources == reranked_result.sources
            hybrid_candidates == reranked_result.hybrid_candidates
        IN  /\ \A j, k \in 1..Len(sources) :
                   sources[j].chunk_key = sources[k].chunk_key => j = k
            /\ \A k \in 1..Len(sources) :
                   \E c \in 1..Len(hybrid_candidates) :
                       hybrid_candidates[c].chunk_key = sources[k].chunk_key
            /\ Len(sources) = Min(reranked_result.top_k, Len(hybrid_candidates))


\* The instances of a model that are loaded: the one the cache holds and the
\* ones that calls in flight refer to through their local `encoder`.
HeldInstances(model) == {rr_encoder[t] : t \in {u \in RerankCallers : rr_encoder[u] # NoEncoder /\ ResolvedModel(u) = model}}
LoadedInstances(model) == HeldInstances(model) \cup (IF model \in model_cache THEN {CachedInstance(model)} ELSE {})

\* C35: with unload_after_request enabled, at most one loaded instance of a
\* given model exists at any time across the cache and the calls in flight.
C35OneLoadedInstance ==
    unload_after_request => \A model \in ResolvedModels : Cardinality(LoadedInstances(model)) <= 1

ProjectActed(ops) == project_calls' # project_calls /\ project_result'.op \in ops
ProjectState == <<projects, project_documents, collections>>

\* C36 as stated: a delete_project that fails at any step has removed neither
\* the SQL rows of the project nor its vector collection.
C36DeleteAllOrNothing ==
    [][(ProjectActed({"delete_project"}) /\ project_result'.status # "ok") => UNCHANGED ProjectState]_vars

\* the points a dense search for a project runs over
Retrievable(p) == IF projects[p].exists THEN collections[projects[p].qdrant_collection_name].points ELSE {}
OwnCollections == \A p, q \in ProjectIds : (p # q /\ projects[p].exists /\ projects[q].exists) => projects[p].qdrant_collection_name # projects[q].qdrant_collection_name

\* C37 as stated: two different projects never share a vector collection, and
\* an ingestion into or a deletion of one project leaves the vectors that are
\* retrievable for every other project as they were.
C37ProjectsIsolated ==
    [][/\ OwnCollections'
       /\ ProjectActed({"ingest_document", "delete_project"}) =>
              \A q \in ProjectIds \ {project_result'.project} : Retrievable(q)' = Retrievable(q)]_vars

GwEnded == gw_pc \in {"closed", "failed"}
\* the content deltas of the lines that were delivered, in upstream order
UpstreamDeltas == SelectSeq(gw_lines, LAMBDA line : line.kind = "json" /\ line.content_delta # "")
FrameKinds(frames) == [k \in 1..Len(frames) |-> frames[k].kind]
ContentFrames(frames) == SelectSeq(frames, LAMBDA frame : frame.kind = "content")
\* role, then the content frames, then one finish frame with finish_reason
\* and usage, then [DONE]
WellFormedStream(frames) ==
    /\ Len(frames) >= 3
    /\ frames[1] = RoleFrame
    /\ \A k \in 2..(Len(frames) - 2) : frames[k].kind = "content"
    /\ [k \in 1..Len(ContentFrames(frames)) |-> ContentFrames(frames)[k].content] = [k \in 1..Len(UpstreamDeltas) |-> UpstreamDeltas[k].content_delta]
    /\ frames[Len(frames) - 1].kind = "finish"
    /\ frames[Len(frames) - 1].finish_reason # "" /\ Len(frames[Len(frames) - 1].usage) = 3
    /\ frames[Len(frames)] = DoneFrame

\* C38 as stated: every streamed completion of the gateway, whatever the
\* upstream did, has sent the role chunk, the content chunks in upstream
\* order, one chunk with finish_reason and usage, and `[DONE]` as last frame.
C38StreamShape == GwEnded => WellFormedStream(gw_frames)

\* complete() leaves asyncio.wait: the race of request r resolves
RaceResolves(r) == op_pc[r] = "waiting" /\ op_pc'[r] # "waiting"
\* the call returns the response: the request goes on with its next unit of
\* work or ends with the response
TakesResponse(r) == request_task[r] = "response" /\ (op_pc'[r] = "tracked" \/ op_result'[r] = "response")

\* C39 as stated: a cancel-aware call whose race resolves with the upstream
\* response ready while the cancel flag is set returns no response; it raises
\* OperationCancelled.
C39NoResponseUnderFlag ==
    [][\A r \in OpRequests : (RaceResolves(r) /\ event_set[r] /\ request_task[r] = "response") => (~TakesResponse(r) /\ op_result'[r] = "OperationCancelled")]_vars

=========================================================================
